---- MODULE Spec2Model ----
(***************************************************************************)
(* Model of two subsystems of the object storage server:                   *)
(*   - the namespace lock map (cmd/namespace-lock.go): nsLockMap.lock,     *)
(*     nsLockMap.unlock, nsLockMap.ForceUnlock and the lockInstance        *)
(*     front end, in the single-node (lsync) configuration;                *)
(*   - the FS multipart coordinator (fs-v1-multipart.go): PutObjectPart,   *)
(*     backgroundAppend, CompleteMultipartUpload, AbortMultipartUpload.    *)
(* Each subsystem has its own specification over the shared variables.     *)
(***************************************************************************)
EXTENDS Integers, Sequences, FiniteSets, TLC

VARIABLES
    \* ---- namespace lock map ------------------------------------------
    lockMap,       \* nsLockMap.lockMap: param -> nsLock object id, or NoLock
    nsRef,         \* nsLock.ref of every nsLock object (uint)
    rwState,       \* state of the RW primitive embedded in every nsLock object
    lockMapMutex,  \* nsLockMap.lockMapMutex: its holder, or Free
    nsPc,          \* position of every caller in lock / unlock / ForceUnlock
    nsParam,       \* (volume, path) of the caller's lockInstance / call
    nsRead,        \* readLock argument of the caller's call
    nsLk,          \* the local pointer nsLk inside nsLockMap.lock
    nsErr,         \* what the caller's last GetLock / GetRLock returned
    opStatus,      \* debug status of the caller's operation id
    panicked,      \* the RW primitive panicked (release of a lock not held)
    forceCalls,    \* number of ForceUnlock calls made so far
    \* ---- FS multipart coordinator -----------------------------------
    uploads,       \* upload-id directory (with its fs.json): "unused", "active", "removed"
    partFiles,     \* the part files NNNNN.etag in every upload-id directory
    dirOld,        \* the upload-id directory's modtime is more than expiry ago
    appendFileMap, \* fs.appendFileMap: upload-id -> fsAppendFile record id, or NoRec
    recParts,      \* fsAppendFile.parts of every record
    recData,       \* content of the file at fsAppendFile.filePath (<<>>: no file)
    recMu,         \* the mutex embedded in every fsAppendFile: its holder, or Free
    objData,       \* content of <root>/<bucket>/<object> (<<>>: no object)
    objEtag,       \* Meta["etag"] in the object's fs.json (<<>>: none)
    objLock,       \* holder of the namespace write lock on (bucket, object), or Free
    mpPc,          \* position of every request and every backgroundAppend goroutine
    mpUp,          \* uploadID argument
    mpPart,        \* PutObjectPart: <<partID, etag of the data>>
    mpParts,       \* CompleteMultipartUpload: the claimed parts
    mpFile,        \* the local pointer "file" (backgroundAppend, CompleteMultipartUpload)
    mpFallback,    \* CompleteMultipartUpload: appendFallback
    mpTmpData,     \* CompleteMultipartUpload: content of the fresh appendFilePath
    mpRet,         \* what the last step returned to a client, if anything
    mpCalls,       \* number of requests made so far
    \* ---- validation of a parts list --------------------------------
    vlParts,       \* the parts list of a CompleteMultipartUpload
    vlFiles,       \* the part files in the upload-id directory
    vlResult,      \* what the validation loop returned ("-": not run yet)
    \* ---- cleanupStaleMultipartUploads --------------------------------
    clPc,          \* "sleep" (waiting for the ticker) or "scan"
    clTodo,        \* the upload-id directories listed and not yet looked at
    clRun,         \* a cleanupStaleMultipartUploads goroutine is running
    clStarts,      \* the times the goroutine was started after the first
    \* ---- the bucket ---------------------------------------------------
    bucketDir,     \* the bucket's directory <root>/<bucket> exists
    \* ---- ListObjectParts on one upload-id directory -------------------
    lpEntries,     \* readDir(uploadIDDir): the part files, in the order read
    lpModTime,     \* the modtime of each of them
    lpMarker,      \* partNumberMarker
    lpMaxParts,    \* maxParts
    lpResult,      \* the ListPartsInfo returned, and the error
    \* ---- ErasureStorage.HealFile on one file --------------------------
    hfDisk,        \* per disk: "valid", "stale" (non-nil in staleDisks) or "offline"
    hfNumBlocks,   \* numBlocks
    hfAlg,         \* alg.Available()
    hfPc,          \* where the call is: "start", "loop", "copy", "done"
    hfBlock,       \* blockNumber
    hfWriteErrors, \* writeErrors[i] != nil
    hfDst,         \* per disk: the blocks appended to dstVol/dstPath
    hfTried,       \* per disk: the number of AppendFile calls made
    hfHashers,     \* per disk: the blocks written to hashers[i]
    hfChecksums,   \* f.Checksums
    hfRet,         \* the error returned: "none" before the return
    hfSize,        \* size: the length of the file that was erasure-coded
    hfOffset,      \* buffOffset
    hfData,        \* per disk: the bytes of dstVol/dstPath
    \* ---- the admin and peer RPC handlers ------------------------------
    adSent,        \* the signals placed on globalServiceSignalCh, in order
    adTmpFiles,    \* the temporary config files in the config directory
    adConfig,      \* the file renamed into config.json: NoFile for the original
    adObjCalls,    \* the calls made on the object layer
    adRet,         \* the last request and the error it returned
    adCalls,       \* the requests made
    \* ---- the distributed setup of the lock map ------------------------
    isDistXL,      \* nsLockMap.isDistXL
    netCall,       \* the dsync message every caller has out: "none", "unlock", "forceunlock"
    \* ---- sendServiceCmd ------------------------------------------------
    scCmd,         \* cmd
    scPc,          \* the caller: "idle", "spawn", "wait", "local", "done"
    scPeer,        \* per peer, the invocation on it: "none", "spawned", "invoking", "returned"
    scWg,          \* the counter of wg
    scErrs,        \* errs: "unset" until assigned
    \* ---- getValidServerConfig ------------------------------------------
    gcServerConfigs, \* serverConfigs
    gcErrs,        \* errs[i] != nil
    gcRet,         \* what the call returned: the config and the error
    \* ---- peerRPCReceiver.LoadCredentials -------------------------------
    lcPc,          \* the handler: "idle", "getrlock", "runlock", "load", "done"
    lcRet,         \* the error it returned: "none" before the return
    \* ---- xlObjects.ListLocks and ClearLocks ----------------------------
    llPc,          \* the admin request: "idle", "clear", "done"
    llLocks,       \* volumeLocks as ListLocks returned it
    llNext         \* ClearLocks: the index of the next volLock

nsVars == <<lockMap, nsRef, rwState, lockMapMutex, nsPc, nsParam, nsRead,
            nsLk, nsErr, opStatus, panicked, forceCalls>>

mpVars == <<uploads, partFiles, dirOld, appendFileMap, recParts, recData, recMu,
            objData, objEtag, objLock, mpPc, mpUp, mpPart, mpParts,
            mpFile, mpFallback, mpTmpData, mpRet, mpCalls>>

vlVars == <<vlParts, vlFiles, vlResult>>

\* What neither the lock map nor the multipart coordinator touches.
clVars == <<clPc, clTodo, clRun, clStarts>>

lpVars == <<lpEntries, lpModTime, lpMarker, lpMaxParts, lpResult>>

hfVars == <<hfDisk, hfNumBlocks, hfAlg, hfPc, hfBlock, hfWriteErrors, hfDst,
            hfTried, hfHashers, hfChecksums, hfRet, hfSize, hfOffset, hfData>>

adVars == <<adSent, adTmpFiles, adConfig, adObjCalls, adRet, adCalls>>

\* nsLockMap.isDistXL, and the dsync broadcast each caller has in flight.
dsVars == <<isDistXL, netCall>>

scVars == <<scCmd, scPc, scPeer, scWg, scErrs>>

\* The clients and handlers that run beside the admin handlers.
gcVars == <<gcServerConfigs, gcErrs, gcRet>>

lcVars == <<lcPc, lcRet>>

llVars == <<llPc, llLocks, llNext>>

rpcVars == <<scVars, gcVars, lcVars, llVars>>

svcVars == <<adVars, dsVars, rpcVars>>

auxVars == <<lpVars, hfVars, svcVars>>

extVars == <<vlVars, clVars, bucketDir, auxVars>>

vars == <<nsVars, mpVars, extVars>>

-----------------------------------------------------------------------------
(* Bounds of the namespace lock model. *)

\* Number of concurrent callers (goroutines, each with its own lockInstance).
NumCallers == 3

Callers == 1..NumCallers

\* Number of ForceUnlock calls an administrator makes in a run.
MaxForceUnlocks == 1

\* The (volume, path) pairs the callers lock.
NsParams == {"bucket/obj1", "bucket/obj2"}

\* nsLock objects that can be alive at once: one per map entry plus one per
\* caller still pointing at an entry that ForceUnlock dropped from the map.
LockIds == 1..(Cardinality(NsParams) + NumCallers)

NoLock == 0
Free == 0
NoParam == "-"

\* newNSLock(isDistXL): n.isDistXL.
IsDistXL == isDistXL

\* ref is a Go uint; a decrement of 0 wraps around.
UintModulus == 2^30

\* States of the RW primitive (lsync.LRWMutex): -1 write locked, 0 no locks,
\* n > 0 the number of read locks.
WRITELOCK == -1
NOLOCKS == 0

-----------------------------------------------------------------------------
(* The RW primitive: RWLockerSync as implemented by lsync.LRWMutex. *)

\* GetLock / GetRLock can take the lock in this state.
RWCanLock(state, readLock) ==
    IF readLock THEN state # WRITELOCK ELSE state = NOLOCKS

RWLocked(state, readLock) ==
    IF readLock THEN state + 1 ELSE WRITELOCK

\* Unlock / RUnlock finds a lock of its kind to release (it panics otherwise).
RWCanUnlock(state, readLock) ==
    IF readLock THEN state > NOLOCKS ELSE state = WRITELOCK

RWUnlocked(state, readLock) ==
    IF readLock THEN state - 1 ELSE NOLOCKS

-----------------------------------------------------------------------------
(* Helpers of the namespace lock map. *)

\* nsLock objects still referenced: by the map, or by the local nsLk of a
\* caller inside nsLockMap.lock.  Every other object is garbage.
InLock(c) == nsPc[c] \in {"lk_ref", "blocked", "to_wait", "to_cleanup"}

LiveLocks == {lockMap[p] : p \in NsParams} \cup {nsLk[c] : c \in {d \in Callers : InLock(d)}}

\* The same over given values of the map, the positions and the pointers.
LiveLocksOf(map, pcs, lks) ==
    {map[p] : p \in NsParams} \cup
    {lks[c] : c \in {d \in Callers : pcs[d] \in {"lk_ref", "blocked", "to_wait", "to_cleanup"}}}

\* An nsLock object nothing references any more is collected: its fields
\* are no longer part of the state.
Collect(f, live, zero) == [i \in LockIds |-> IF i \in live THEN f[i] ELSE zero]

\* &nsLock{...}: a fresh object (the lowest unused id).
NewLockId == CHOOSE i \in LockIds \ LiveLocks : \A j \in LockIds \ LiveLocks : i <= j

\* deleteLockInfoEntryForVolumePath: drops the debug record of every
\* operation on param.
DeleteLockInfoEntryForVolumePath(status, param) ==
    [c \in Callers |-> IF nsParam[c] = param THEN "none" ELSE status[c]]

\* deleteLockInfoEntryForOps: drops the debug record of one operation.
DeleteLockInfoEntryForOps(status, c) == [status EXCEPT ![c] = "none"]

\* "nsLk, found := n.lockMap[param]": found.
LookupFound_Never(map, param) == FALSE

LookupFound(map, param) == map[param] # NoLock

\* "if readLock { nsLk.GetRLock } else { nsLk.GetLock }": the kind of lock
\* nsLockMap.lock asks the RW primitive for.
AcquireAsRead_Never(readLock) == FALSE

AcquireAsRead(readLock) == readLock

\* "if n.isDistXL { dsync.NewDRWMutex(...).ForceUnlock() }": what ForceUnlock
\* does to the RW primitive of the entry.  Single node: nothing.
ForceUnlockRW_Release(state) == NOLOCKS

ForceUnlockRW(state) == IF IsDistXL THEN NOLOCKS ELSE state

\* nsLk.ref-- on a uint.
RefDec(ref) == (ref + UintModulus - 1) % UintModulus

\* The guard of unlock's decrement: "if nsLk.ref != 0".
UnlockDecrements(ref) == ref # 0

\* The guard of the removal from the map: "if nsLk.ref == 0".
RefIsZero_Always(ref) == TRUE

RefIsZero(ref) == ref = 0

-----------------------------------------------------------------------------
(* nsLockMap.lock, called by lockInstance.GetLock / GetRLock. *)

\* GetLock / GetRLock -> lock: n.lockMapMutex.Lock()
LockEnter(c, p, rl) ==
    /\ ~panicked
    /\ nsPc[c] = "idle"
    /\ lockMapMutex = Free
    /\ lockMapMutex' = c
    /\ nsPc' = [nsPc EXCEPT ![c] = "lk_lookup"]
    /\ nsParam' = [nsParam EXCEPT ![c] = p]
    /\ nsRead' = [nsRead EXCEPT ![c] = rl]
    /\ nsErr' = [nsErr EXCEPT ![c] = "none"]
    /\ UNCHANGED <<lockMap, nsRef, rwState, nsLk, opStatus, panicked, forceCalls>>
    /\ UNCHANGED <<mpVars, extVars>>

\* nsLk, found := n.lockMap[param]; if !found { create with ref 0 }
LockLookup(c) ==
    /\ ~panicked
    /\ nsPc[c] = "lk_lookup"
    /\ IF ~LookupFound(lockMap, nsParam[c])
         THEN LET id == NewLockId IN
              /\ lockMap' = [lockMap EXCEPT ![nsParam[c]] = id]
              /\ nsRef' = [nsRef EXCEPT ![id] = 0]
              /\ rwState' = [rwState EXCEPT ![id] = NOLOCKS]
              /\ nsLk' = [nsLk EXCEPT ![c] = id]
         ELSE /\ nsLk' = [nsLk EXCEPT ![c] = lockMap[nsParam[c]]]
              /\ UNCHANGED <<lockMap, nsRef, rwState>>
    /\ nsPc' = [nsPc EXCEPT ![c] = "lk_ref"]
    /\ UNCHANGED <<lockMapMutex, nsParam, nsRead, nsErr, opStatus, panicked, forceCalls>>
    /\ UNCHANGED <<mpVars, extVars>>

LockRef_KeepsMutex(c) ==
    /\ ~panicked
    /\ nsPc[c] = "lk_ref"
    /\ nsRef' = [nsRef EXCEPT ![nsLk[c]] = (@ + 1) % UintModulus]
    /\ opStatus' = [opStatus EXCEPT ![c] = "blocked"]
    /\ nsPc' = [nsPc EXCEPT ![c] = "blocked"]
    /\ UNCHANGED <<lockMap, rwState, lockMapMutex, nsParam, nsRead, nsLk, nsErr, panicked,
                   forceCalls>>
    /\ UNCHANGED <<mpVars, extVars>>

\* nsLk.ref++; statusNoneToBlocked; n.lockMapMutex.Unlock()
LockRef(c) ==
    /\ ~panicked
    /\ nsPc[c] = "lk_ref"
    /\ nsRef' = [nsRef EXCEPT ![nsLk[c]] = (@ + 1) % UintModulus]
    /\ opStatus' = [opStatus EXCEPT ![c] = "blocked"]
    /\ lockMapMutex' = Free
    /\ nsPc' = [nsPc EXCEPT ![c] = "blocked"]
    /\ UNCHANGED <<lockMap, rwState, nsParam, nsRead, nsLk, nsErr, panicked, forceCalls>>
    /\ UNCHANGED <<mpVars, extVars>>

LockAcquire_StaysBlocked(c) ==
    /\ ~panicked
    /\ nsPc[c] = "blocked"
    /\ RWCanLock(rwState[nsLk[c]], AcquireAsRead(nsRead[c]))
    /\ nsPc' = [nsPc EXCEPT ![c] = "running"]
    /\ nsLk' = [nsLk EXCEPT ![c] = NoLock]
    /\ nsErr' = [nsErr EXCEPT ![c] = "nil"]
    /\ LET live == LiveLocksOf(lockMap, nsPc', nsLk')
       IN /\ rwState' = Collect([rwState EXCEPT ![nsLk[c]] = RWLocked(@, AcquireAsRead(nsRead[c]))],
                                live, NOLOCKS)
          /\ nsRef' = Collect(nsRef, live, 0)
    /\ UNCHANGED <<lockMap, lockMapMutex, nsParam, nsRead, opStatus, panicked, forceCalls>>
    /\ UNCHANGED <<mpVars, extVars>>

\* nsLk.GetLock(timeout) / nsLk.GetRLock(timeout) returns true;
\* statusBlockedToRunning; GetLock returns nil.
LockAcquire(c) ==
    /\ ~panicked
    /\ nsPc[c] = "blocked"
    /\ RWCanLock(rwState[nsLk[c]], AcquireAsRead(nsRead[c]))
    /\ opStatus' = [opStatus EXCEPT ![c] = IF @ = "blocked" THEN "running" ELSE @]
    /\ nsPc' = [nsPc EXCEPT ![c] = "running"]
    /\ nsLk' = [nsLk EXCEPT ![c] = NoLock]
    /\ nsErr' = [nsErr EXCEPT ![c] = "nil"]
    /\ LET live == LiveLocksOf(lockMap, nsPc', nsLk')
       IN /\ rwState' = Collect([rwState EXCEPT ![nsLk[c]] = RWLocked(@, AcquireAsRead(nsRead[c]))],
                                live, NOLOCKS)
          /\ nsRef' = Collect(nsRef, live, 0)
    /\ UNCHANGED <<lockMap, lockMapMutex, nsParam, nsRead, panicked, forceCalls>>
    /\ UNCHANGED <<mpVars, extVars>>

\* nsLk.GetLock(timeout) / nsLk.GetRLock(timeout) returns false: the last
\* attempt found the lock taken and the timeout has passed.
LockTimeout(c) ==
    /\ ~panicked
    /\ nsPc[c] = "blocked"
    /\ ~RWCanLock(rwState[nsLk[c]], AcquireAsRead(nsRead[c]))
    /\ nsPc' = [nsPc EXCEPT ![c] = "to_wait"]
    /\ UNCHANGED <<lockMap, nsRef, rwState, lockMapMutex, nsParam, nsRead, nsLk,
                   nsErr, opStatus, panicked, forceCalls>>
    /\ UNCHANGED <<mpVars, extVars>>

\* if !locked { n.lockMapMutex.Lock()
TimeoutEnter(c) ==
    /\ ~panicked
    /\ nsPc[c] = "to_wait"
    /\ lockMapMutex = Free
    /\ lockMapMutex' = c
    /\ nsPc' = [nsPc EXCEPT ![c] = "to_cleanup"]
    /\ UNCHANGED <<lockMap, nsRef, rwState, nsParam, nsRead, nsLk, nsErr,
                   opStatus, panicked, forceCalls>>
    /\ UNCHANGED <<mpVars, extVars>>

\* statusBlockedToNone; nsLk.ref--; deleteLockInfoEntryForOps;
\* if nsLk.ref == 0 { delete(n.lockMap, param); ... }; deferred Unlock of the
\* map mutex; GetLock returns OperationTimedOut.
TimeoutCleanup(c) ==
    /\ ~panicked
    /\ nsPc[c] = "to_cleanup"
    /\ nsPc' = [nsPc EXCEPT ![c] = "idle"]
    /\ nsLk' = [nsLk EXCEPT ![c] = NoLock]
    /\ LET ref == RefDec(nsRef[nsLk[c]])
           st  == DeleteLockInfoEntryForOps(opStatus, c)
       IN /\ IF RefIsZero(ref)
               THEN /\ lockMap' = [lockMap EXCEPT ![nsParam[c]] = NoLock]
                    /\ opStatus' = DeleteLockInfoEntryForVolumePath(st, nsParam[c])
               ELSE /\ lockMap' = lockMap
                    /\ opStatus' = st
          /\ LET live == LiveLocksOf(lockMap', nsPc', nsLk')
             IN /\ nsRef' = Collect([nsRef EXCEPT ![nsLk[c]] = ref], live, 0)
                /\ rwState' = Collect(rwState, live, NOLOCKS)
    /\ lockMapMutex' = Free
    /\ nsErr' = [nsErr EXCEPT ![c] = "OperationTimedOut"]
    /\ UNCHANGED <<nsParam, nsRead, panicked, forceCalls>>
    /\ UNCHANGED <<mpVars, extVars>>

-----------------------------------------------------------------------------
(* nsLockMap.unlock, called by lockInstance.Unlock / RUnlock. *)

\* The RW primitive of a distributed setup is a dsync.DRWMutex: its Unlock,
\* RUnlock and ForceUnlock send a message to every lock server.  A call made
\* only "if held" is made when held is true.
DsyncCalls(held) == IsDistXL /\ held

\* "nsLk.RUnlock()" / "nsLk.Unlock()" of a distributed setup: the unlock
\* message goes out to the lock servers, under the map mutex.
DsyncUnlock(c) ==
    /\ ~panicked
    /\ nsPc[c] = "ul_body"
    /\ DsyncCalls(LookupFound(lockMap, nsParam[c]))
    /\ netCall[c] = "none"
    /\ netCall' = [netCall EXCEPT ![c] = "unlock"]
    /\ UNCHANGED <<nsVars, mpVars, vlVars, clVars, bucketDir, lpVars, hfVars, adVars, isDistXL, rpcVars>>

\* Unlock / RUnlock of the caller's own hold -> unlock: n.lockMapMutex.Lock()
UnlockEnter(c) ==
    /\ ~panicked
    /\ nsPc[c] = "running"
    /\ lockMapMutex = Free
    /\ lockMapMutex' = c
    /\ nsPc' = [nsPc EXCEPT ![c] = "ul_body"]
    /\ UNCHANGED <<lockMap, nsRef, rwState, nsParam, nsRead, nsLk, nsErr,
                   opStatus, panicked, forceCalls>>
    /\ UNCHANGED <<mpVars, extVars>>

\* The body of unlock under the map mutex, and the deferred Unlock of it.
UnlockBody(c) ==
    /\ ~panicked
    /\ nsPc[c] = "ul_body"
    /\ DsyncCalls(LookupFound(lockMap, nsParam[c])) => netCall[c] = "unlock"
    /\ netCall' = [netCall EXCEPT ![c] = "none"]
    /\ LET p  == nsParam[c]
           id == lockMap[p]
       IN IF id = NoLock
            THEN UNCHANGED <<lockMap, nsRef, rwState, opStatus, panicked>>
            ELSE IF ~RWCanUnlock(rwState[id], nsRead[c])
              THEN /\ panicked' = TRUE
                   /\ UNCHANGED <<lockMap, nsRef, rwState, opStatus>>
              ELSE LET dec == UnlockDecrements(nsRef[id])
                       ref == IF dec THEN RefDec(nsRef[id]) ELSE nsRef[id]
                       st  == IF dec THEN DeleteLockInfoEntryForOps(opStatus, c)
                                     ELSE opStatus
                   IN /\ IF RefIsZero(ref)
                           THEN /\ lockMap' = [lockMap EXCEPT ![p] = NoLock]
                                /\ opStatus' = DeleteLockInfoEntryForVolumePath(st, p)
                           ELSE /\ lockMap' = lockMap
                                /\ opStatus' = st
                      /\ LET live == LiveLocksOf(lockMap', nsPc, nsLk)
                         IN /\ rwState' = Collect([rwState EXCEPT ![id] =
                                                    RWUnlocked(@, nsRead[c])], live, NOLOCKS)
                            /\ nsRef' = Collect([nsRef EXCEPT ![id] = ref], live, 0)
                      /\ UNCHANGED panicked
    /\ lockMapMutex' = Free
    /\ nsPc' = [nsPc EXCEPT ![c] = "idle"]
    /\ nsErr' = [nsErr EXCEPT ![c] = "none"]
    /\ nsParam' = [nsParam EXCEPT ![c] = NoParam]
    /\ nsRead' = [nsRead EXCEPT ![c] = FALSE]
    /\ UNCHANGED <<nsLk, forceCalls>>
    /\ UNCHANGED <<mpVars, vlVars, clVars, bucketDir, lpVars, hfVars, adVars, isDistXL, rpcVars>>

\* Unlock / RUnlock on (volume, path) by a caller that holds nothing: it
\* never called GetLock / GetRLock, or its last call timed out.
\* -> unlock: n.lockMapMutex.Lock()
StrayUnlockEnter(c, p, rl) ==
    /\ ~panicked
    /\ nsPc[c] = "idle"
    /\ lockMapMutex = Free
    /\ lockMapMutex' = c
    /\ nsPc' = [nsPc EXCEPT ![c] = "ul_body"]
    /\ nsParam' = [nsParam EXCEPT ![c] = p]
    /\ nsRead' = [nsRead EXCEPT ![c] = rl]
    /\ UNCHANGED <<lockMap, nsRef, rwState, nsLk, nsErr, opStatus, panicked, forceCalls>>
    /\ UNCHANGED <<mpVars, extVars>>

-----------------------------------------------------------------------------
(* nsLockMap.ForceUnlock (single node: isDistXL is false). *)

\* "dsync.NewDRWMutex(pathJoin(volume, path), globalDsync).ForceUnlock()":
\* the force-unlock message goes out to the lock servers, under the map mutex.
DsyncForceUnlock(c) ==
    /\ ~panicked
    /\ nsPc[c] = "fu_body"
    /\ DsyncCalls(TRUE)
    /\ netCall[c] = "none"
    /\ netCall' = [netCall EXCEPT ![c] = "forceunlock"]
    /\ UNCHANGED <<nsVars, mpVars, vlVars, clVars, bucketDir, lpVars, hfVars, adVars, isDistXL, rpcVars>>

\* n.lockMapMutex.Lock()
ForceUnlockEnter(c, p) ==
    /\ ~panicked
    /\ nsPc[c] = "idle"
    /\ lockMapMutex = Free
    /\ lockMapMutex' = c
    /\ nsPc' = [nsPc EXCEPT ![c] = "fu_body"]
    /\ nsParam' = [nsParam EXCEPT ![c] = p]
    /\ nsErr' = [nsErr EXCEPT ![c] = "none"]
    /\ forceCalls < MaxForceUnlocks
    /\ forceCalls' = forceCalls + 1
    /\ UNCHANGED <<lockMap, nsRef, rwState, nsRead, nsLk, opStatus, panicked>>
    /\ UNCHANGED <<mpVars, extVars>>

\* delete(n.lockMap, param); deleteLockInfoEntryForVolumePath(param);
\* deferred Unlock of the map mutex.
ForceUnlockBody(c) ==
    /\ ~panicked
    /\ nsPc[c] = "fu_body"
    /\ DsyncCalls(TRUE) => netCall[c] = "forceunlock"
    /\ netCall' = [netCall EXCEPT ![c] = "none"]
    /\ lockMap' = [lockMap EXCEPT ![nsParam[c]] = NoLock]
    /\ opStatus' = DeleteLockInfoEntryForVolumePath(opStatus, nsParam[c])
    /\ lockMapMutex' = Free
    /\ nsPc' = [nsPc EXCEPT ![c] = "idle"]
    /\ nsParam' = [nsParam EXCEPT ![c] = NoParam]
    /\ LET id   == lockMap[nsParam[c]]
           live == LiveLocksOf(lockMap', nsPc', nsLk)
           rw   == IF id = NoLock THEN rwState
                   ELSE [rwState EXCEPT ![id] = ForceUnlockRW(@)]
       IN /\ nsRef' = Collect(nsRef, live, 0)
          /\ rwState' = Collect(rw, live, NOLOCKS)
    /\ UNCHANGED <<nsRead, nsLk, nsErr, panicked, forceCalls>>
    /\ UNCHANGED <<mpVars, vlVars, clVars, bucketDir, lpVars, hfVars, adVars, isDistXL, rpcVars>>

-----------------------------------------------------------------------------
(* The FS multipart coordinator: one bucket, one object.                     *)

\* The requests clients make in all.
MaxRequests == 4

\* Request threads, and the goroutines PutObjectPart starts with
\* "go fs.backgroundAppend(...)": one may be pending or running at a time.
Threads == {1, 2}

Appenders == {3}

Procs == Threads \cup Appenders

\* The upload ids mustGetUUID hands out, in this order.
UploadIds == <<"id1", "id2">>

Uploads == {UploadIds[i] : i \in 1..Len(UploadIds)}

NoUpload == "-"

\* Part numbers and etags clients use; an etag stands for the data it
\* is the MD5 of.
MaxPartNumber == 2

PartNumbers == 1..MaxPartNumber

ETags == {"a", "b"}

\* PartInfo / CompletePart / a part file name NNNNN.etag: <<number, etag>>.
\* Clients upload part 1 with either data and the later parts with "b".
Parts == {x \in PartNumbers \X ETags : x[1] = 1 \/ x[2] = "b"}

NoPart == <<0, "-">>

\* The parts lists clients send to CompleteMultipartUpload: up to
\* MaxClaimed parts in ascending order of their numbers.
MaxClaimed == 2

PartLists ==
    {l \in UNION {[1..n -> Parts] : n \in 0..MaxClaimed} :
        \A i \in 1..(Len(l) - 1) : l[i][1] < l[i + 1][1]}

\* globalMinPartSize, and the size of the data behind every etag.
MinPartSize == 5 * 1024 * 1024

PartSize(etag) ==
    IF etag = "a" THEN MinPartSize ELSE IF etag = "c" THEN 2 * MinPartSize ELSE 1

\* fsAppendFile records: one per upload-id in the map and one per
\* process may be referenced at a time.
RecIds == 1..(Len(UploadIds) + Cardinality(Procs))

NoRec == 0

\* encodePartFile orders names by number (five digits) and then by etag;
\* sort.Strings puts Min first.
ETagBefore(e, f) == e = "a" \/ f = "b"

MinETag(S) == CHOOSE e \in S : \A f \in S : ETagBefore(e, f)

\* isMinAllowedPartSize
IsMinAllowedPartSize(size) == size >= MinPartSize

\* getCompleteMultipartMD5: the MD5 over the parts' MD5s in order,
\* suffixed with their number; the sequence of etags stands for it.
GetCompleteMultipartMD5(parts) == [i \in 1..Len(parts) |-> parts[i][2]]

RECURSIVE ValidateFrom_LastSized(_, _, _, _)
ValidateFrom_LastSized(parts, files, i, partSize) ==
    IF i > Len(parts) THEN "ok"
    ELSE IF parts[i] \notin files THEN "InvalidPart"
    ELSE LET size == PartSize(parts[i][2])
             first == IF partSize = -1 THEN size ELSE partSize
         IN  IF ~IsMinAllowedPartSize(size) THEN "PartTooSmall"
             ELSE IF first # size THEN "PartsSizeUnequal"
             ELSE ValidateFrom_LastSized(parts, files, i + 1, first)

RECURSIVE ValidateFrom_LastUnchecked(_, _, _, _)
ValidateFrom_LastUnchecked(parts, files, i, partSize) ==
    IF i >= Len(parts) THEN "ok"
    ELSE IF parts[i] \notin files THEN "InvalidPart"
    ELSE LET size == PartSize(parts[i][2])
             first == IF partSize = -1 THEN size ELSE partSize
         IN  IF ~IsMinAllowedPartSize(size) THEN "PartTooSmall"
             ELSE IF first # size THEN "PartsSizeUnequal"
             ELSE ValidateFrom_LastUnchecked(parts, files, i + 1, first)

\* The validation loop of CompleteMultipartUpload over the part files on
\* disk, from part i on, with partSize as the loop carries it (-1: unset).
RECURSIVE ValidateFrom(_, _, _, _)
ValidateFrom(parts, files, i, partSize) ==
    IF i > Len(parts) THEN "ok"
    ELSE IF parts[i] \notin files THEN "InvalidPart"
    ELSE LET size == PartSize(parts[i][2])
             first == IF partSize = -1 THEN size ELSE partSize
         IN  IF i = Len(parts) THEN "ok"
             ELSE IF ~IsMinAllowedPartSize(size) THEN "PartTooSmall"
             ELSE IF first # size THEN "PartsSizeUnequal"
             ELSE ValidateFrom(parts, files, i + 1, first)

ValidateParts(parts, files) == ValidateFrom(parts, files, 1, -1)

\* "Verify that appendFile has all the parts": the loop leaves
\* appendFallback true unless it reaches the last index without a break.
RECURSIVE VerifyFrom(_, _, _)
VerifyFrom(parts, fileParts, i) ==
    IF i > Len(parts) THEN FALSE
    ELSE IF parts[i][2] # fileParts[i][2] THEN FALSE
    ELSE IF parts[i][1] # fileParts[i][1] THEN FALSE
    ELSE IF i = Len(parts) THEN TRUE
    ELSE VerifyFrom(parts, fileParts, i + 1)

AppendFileHasAllParts_LengthOnly(parts, fileParts) == Len(fileParts) = Len(parts)

AppendFileHasAllParts(parts, fileParts) ==
    Len(fileParts) = Len(parts) /\ VerifyFrom(parts, fileParts, 1)

\* fsStatFile(uploadIDDir/fs.json) finds the file.
UploadExists(ups, u) == u \in Uploads /\ ups[u] = "active"

\* fsRemoveAll(uploadIDDir)
RemoveAllDir(ups, u) == [ups EXCEPT ![u] = "removed"]

\* Records still referenced: by the map, or by the local "file" of a process.
LiveRecs(map, files) == ({map[u] : u \in Uploads} \cup {files[p] : p \in Procs}) \ {NoRec}

\* A record nothing references is collected.
CollectRecs(f, live, zero) == [r \in RecIds |-> IF r \in live THEN f[r] ELSE zero]

\* &fsAppendFile{...}: a fresh record (the lowest unused id).
NewRecId == CHOOSE r \in RecIds \ LiveRecs(appendFileMap, mpFile) :
                \A q \in RecIds \ LiveRecs(appendFileMap, mpFile) : r <= q

fsVars == <<uploads, partFiles, dirOld>>

recVars == <<appendFileMap, recParts, recData, recMu>>

objVars == <<objData, objEtag, objLock>>

\* What a request returns to its client: mpRet holds the return of the
\* last step, NoRet when that step returned nothing.  With the return of a
\* CompleteMultipartUpload goes the parts list the client sent.
NoRet == [op |-> "none", uploadID |-> NoUpload, err |-> "none", etag |-> <<>>,
          parts |-> <<>>]

Ret(op, u, err) == [op |-> op, uploadID |-> u, err |-> err, etag |-> <<>>,
                    parts |-> <<>>]

\* The next upload id mustGetUUID returns, or NoUpload when all are used.
NextUploadId ==
    IF \A i \in 1..Len(UploadIds) : uploads[UploadIds[i]] # "unused" THEN NoUpload
    ELSE UploadIds[CHOOSE i \in 1..Len(UploadIds) :
                     /\ uploads[UploadIds[i]] = "unused"
                     /\ \A j \in 1..(i - 1) : uploads[UploadIds[j]] # "unused"]

\* fs.statBucketDir(bucket) finds the bucket's directory.
StatBucketDir == bucketDir

\* A request returns BucketNotFound from its statBucketDir.
BucketNotFound(op, u) ==
    /\ mpRet' = Ret(op, u, "BucketNotFound")
    /\ UNCHANGED <<fsVars, recVars, objVars, mpPc, mpUp, mpPart, mpParts, mpFile,
                   mpFallback, mpTmpData>>

\* NewMultipartUpload: creates the upload-id directory and its fs.json.
NewMultipartUpload(t) ==
    /\ mpPc[t] = "idle"
    /\ mpCalls < MaxRequests
    /\ NextUploadId # NoUpload
    /\ IF ~StatBucketDir
       THEN BucketNotFound("new", NoUpload)
       ELSE /\ uploads' = [uploads EXCEPT ![NextUploadId] = "active"]
            /\ dirOld' = [dirOld EXCEPT ![NextUploadId] = FALSE]
            /\ mpRet' = Ret("new", NextUploadId, "nil")
            /\ UNCHANGED <<partFiles, recVars, objVars, mpPc, mpUp, mpPart, mpParts, mpFile,
                   mpFallback, mpTmpData>>
    /\ mpCalls' = mpCalls + 1
    /\ UNCHANGED <<nsVars, extVars>>

PutObjectPartStart_NoCheck(t, u, pn, e) ==
    /\ mpPc[t] = "idle"
    /\ mpCalls < MaxRequests
    /\ mpPc' = [mpPc EXCEPT ![t] = "p_rename"]
    /\ mpUp' = [mpUp EXCEPT ![t] = u]
    /\ mpPart' = [mpPart EXCEPT ![t] = <<pn, e>>]
    /\ mpRet' = NoRet
    /\ mpCalls' = mpCalls + 1
    /\ UNCHANGED <<fsVars, recVars, objVars, mpParts, mpFile, mpFallback, mpTmpData,
                   nsVars, extVars>>

\* PutObjectPart up to the rename: the upload-id check, then the data
\* goes to a temporary file.
PutObjectPartStart(t, u, pn, e) ==
    /\ mpPc[t] = "idle"
    /\ mpCalls < MaxRequests
    /\ IF ~StatBucketDir
       THEN /\ mpRet' = Ret("put", u, "BucketNotFound")
            /\ UNCHANGED <<mpPc, mpUp, mpPart>>
       ELSE IF UploadExists(uploads, u)
       THEN /\ mpPc' = [mpPc EXCEPT ![t] = "p_rename"]
            /\ mpUp' = [mpUp EXCEPT ![t] = u]
            /\ mpPart' = [mpPart EXCEPT ![t] = <<pn, e>>]
            /\ mpRet' = NoRet
       ELSE /\ mpRet' = Ret("put", u, "InvalidUploadID")
            /\ UNCHANGED <<mpPc, mpUp, mpPart>>
    /\ UNCHANGED <<fsVars, recVars, objVars, mpParts, mpFile, mpFallback, mpTmpData>>
    /\ mpCalls' = mpCalls + 1
    /\ UNCHANGED <<nsVars, extVars>>

\* fsRenameFile(tmpPartPath, partPath) finds the upload-id directory.
RenameIntoDir(ups, u) == UploadExists(ups, u)

\* PutObjectPart from the rename on: the temporary file is renamed into
\* the upload-id directory, "go fs.backgroundAppend" starts a goroutine,
\* and the part is returned; when the rename fails the deferred
\* fsRemoveFile removes the temporary file.
PutObjectPartRename(t) ==
    /\ mpPc[t] = "p_rename"
    /\ IF RenameIntoDir(uploads, mpUp[t])
       THEN \E g \in Appenders :
              /\ mpPc[g] = "idle"
              /\ \A h \in Appenders : mpPc[h] = "idle" => g <= h
              /\ partFiles' = [partFiles EXCEPT ![mpUp[t]] = @ \cup {mpPart[t]}]
              /\ dirOld' = [dirOld EXCEPT ![mpUp[t]] = FALSE]
              /\ mpPc' = [mpPc EXCEPT ![t] = "idle", ![g] = "ba_map"]
              /\ mpUp' = [mpUp EXCEPT ![t] = NoUpload, ![g] = mpUp[t]]
              /\ mpRet' = [Ret("put", mpUp[t], "nil") EXCEPT !.etag = <<mpPart[t][2]>>]
       ELSE /\ mpPc' = [mpPc EXCEPT ![t] = "idle"]
            /\ mpUp' = [mpUp EXCEPT ![t] = NoUpload]
            /\ mpRet' = Ret("put", mpUp[t], "ObjectNotFound")
            /\ UNCHANGED <<partFiles, dirOld>>
    /\ mpPart' = [mpPart EXCEPT ![t] = NoPart]
    /\ UNCHANGED <<uploads, recVars, objVars, mpParts, mpFile, mpFallback, mpTmpData>>
    /\ UNCHANGED <<nsVars, extVars, mpCalls>>

\* ListObjectParts: the upload-id check and the return; the listing
\* itself changes nothing.
ListObjectParts(t, u) ==
    /\ mpPc[t] = "idle"
    /\ mpCalls < MaxRequests
    /\ mpRet' = Ret("list", u, IF ~StatBucketDir THEN "BucketNotFound"
                                ELSE IF UploadExists(uploads, u) THEN "nil"
                                ELSE "InvalidUploadID")
    /\ UNCHANGED <<fsVars, recVars, objVars, mpPc, mpUp, mpPart, mpParts, mpFile,
                   mpFallback, mpTmpData>>
    /\ mpCalls' = mpCalls + 1
    /\ UNCHANGED <<nsVars, extVars>>

\* backgroundAppend: under appendFileMapMu, the record of the upload-id
\* is looked up and created if missing.
BackgroundAppendMap(p) ==
    /\ mpPc[p] = "ba_map"
    /\ LET u == mpUp[p]
           r == IF appendFileMap[u] = NoRec THEN NewRecId ELSE appendFileMap[u]
       IN  /\ appendFileMap' = [appendFileMap EXCEPT ![u] = r]
           /\ mpFile' = [mpFile EXCEPT ![p] = r]
    /\ mpPc' = [mpPc EXCEPT ![p] = "ba_file"]
    /\ mpRet' = NoRet
    /\ UNCHANGED <<fsVars, recParts, recData, recMu, objVars, mpUp, mpPart,
                   mpParts, mpFallback, mpTmpData>>
    /\ UNCHANGED <<nsVars, extVars, mpCalls>>

\* mioutil.AppendFile(dst, src) finds the source file.
SourceExists(files, part) == part \in files

\* The loop of backgroundAppend over the sorted entries: entries below
\* nextPartNumber are passed over, the first entry with nextPartNumber is
\* appended to the file and to the record, and the loop returns when there
\* is none.  The result is the record: <<parts, data>>.
AppendEntries_AnyNext(entries, parts, data) ==
    LET next == {x \in entries : x[1] > Len(parts)}
        part == CHOOSE x \in next : \A y \in next : x[1] <= y[1]
    IN  IF next = {} THEN <<parts, data>>
        ELSE <<Append(parts, part), Append(data, part[2])>>

AppendEntries_OnePerRun(entries, parts, data) ==
    LET nextPartNumber == Len(parts) + 1
        next == {x \in entries : x[1] = nextPartNumber}
        part == <<nextPartNumber, MinETag({x[2] : x \in next})>>
    IN  IF next = {} THEN <<parts, data>>
        ELSE <<Append(parts, part), Append(data, part[2])>>

RECURSIVE AppendEntries(_, _, _)
AppendEntries(entries, parts, data) ==
    LET nextPartNumber == Len(parts) + 1
        next == {x \in entries : x[1] = nextPartNumber}
        part == <<nextPartNumber, MinETag({x[2] : x \in next})>>
    IN  IF next = {} THEN <<parts, data>>
        ELSE AppendEntries(entries, Append(parts, part), Append(data, part[2]))

\* backgroundAppend from file.Lock() to the deferred file.Unlock(): with
\* the record locked, readDir lists the upload-id directory and the loop
\* appends what comes next; readDir fails when the directory is gone.  The
\* goroutine ends, or CompleteMultipartUpload goes on.
BackgroundAppendFile(p) ==
    /\ mpPc[p] = "ba_file"
    /\ recMu[mpFile[p]] = Free
    /\ LET u == mpUp[p]
           r == mpFile[p]
           rec == IF UploadExists(uploads, u)
                  THEN AppendEntries(partFiles[u], recParts[r], recData[r])
                  ELSE <<recParts[r], recData[r]>>
           files == [mpFile EXCEPT ![p] = NoRec]
           live == LiveRecs(appendFileMap, files)
       IN  /\ recParts' = CollectRecs([recParts EXCEPT ![r] = rec[1]], live, <<>>)
           /\ recData' = CollectRecs([recData EXCEPT ![r] = rec[2]], live, <<>>)
           /\ mpFile' = files
    /\ mpPc' = [mpPc EXCEPT ![p] = IF p \in Threads THEN "c_take" ELSE "idle"]
    /\ mpUp' = [mpUp EXCEPT ![p] = IF p \in Threads THEN @ ELSE NoUpload]
    /\ mpRet' = NoRet
    /\ UNCHANGED <<fsVars, appendFileMap, recMu, objVars, mpPart, mpParts,
                   mpFallback, mpTmpData>>
    /\ UNCHANGED <<nsVars, extVars, mpCalls>>

\* backgroundAppend, step by step: file.Lock() returns.
BackgroundAppendLock(p) ==
    /\ mpPc[p] = "ba_file"
    /\ recMu[mpFile[p]] = Free
    /\ recMu' = [recMu EXCEPT ![mpFile[p]] = p]
    /\ mpPc' = [mpPc EXCEPT ![p] = "ba_scan"]
    /\ mpRet' = NoRet
    /\ UNCHANGED <<fsVars, appendFileMap, recParts, recData, objVars, mpUp, mpPart,
                   mpParts, mpFile, mpFallback, mpTmpData>>
    /\ UNCHANGED <<nsVars, extVars, mpCalls>>

\* backgroundAppend, step by step: readDir, the loop over the entries and
\* the deferred file.Unlock().
BackgroundAppendScan(p) ==
    /\ mpPc[p] = "ba_scan"
    /\ LET u == mpUp[p]
           r == mpFile[p]
           rec == IF UploadExists(uploads, u)
                  THEN AppendEntries(partFiles[u], recParts[r], recData[r])
                  ELSE <<recParts[r], recData[r]>>
           files == [mpFile EXCEPT ![p] = NoRec]
           live == LiveRecs(appendFileMap, files)
       IN  /\ recParts' = CollectRecs([recParts EXCEPT ![r] = rec[1]], live, <<>>)
           /\ recData' = CollectRecs([recData EXCEPT ![r] = rec[2]], live, <<>>)
           /\ recMu' = [recMu EXCEPT ![r] = Free]
           /\ mpFile' = files
    /\ mpPc' = [mpPc EXCEPT ![p] = IF p \in Threads THEN "c_take" ELSE "idle"]
    /\ mpUp' = [mpUp EXCEPT ![p] = IF p \in Threads THEN @ ELSE NoUpload]
    /\ mpRet' = NoRet
    /\ UNCHANGED <<fsVars, appendFileMap, objVars, mpPart, mpParts,
                   mpFallback, mpTmpData>>
    /\ UNCHANGED <<nsVars, extVars, mpCalls>>

\* CompleteMultipartUpload returns err: the deferred destLock.Unlock() and
\* file.Unlock() run, the locals go away.  On success the ObjectInfo
\* carries the etag written to the metadata.  data is the content of the
\* records' files at the return.
CompleteReturn(t, err, data) ==
    LET files == [mpFile EXCEPT ![t] = NoRec]
        live == LiveRecs(appendFileMap, files)
        r == mpFile[t]
    IN  /\ mpPc' = [mpPc EXCEPT ![t] = "idle"]
        /\ mpRet' = [Ret("complete", mpUp[t], err) EXCEPT
                       !.etag = IF err = "nil" THEN GetCompleteMultipartMD5(mpParts[t])
                                ELSE <<>>,
                       !.parts = mpParts[t]]
        /\ objLock' = IF objLock = t THEN Free ELSE objLock
        /\ recMu' = IF r # NoRec /\ recMu[r] = t THEN [recMu EXCEPT ![r] = Free] ELSE recMu
        /\ mpFile' = files
        /\ recParts' = CollectRecs(recParts, live, <<>>)
        /\ recData' = CollectRecs(data, live, <<>>)
        /\ mpUp' = [mpUp EXCEPT ![t] = NoUpload]
        /\ mpParts' = [mpParts EXCEPT ![t] = <<>>]
        /\ mpFallback' = [mpFallback EXCEPT ![t] = TRUE]
        /\ mpTmpData' = [mpTmpData EXCEPT ![t] = <<>>]

\* CompleteMultipartUpload up to the call of backgroundAppend: the
\* upload-id check and the validation of the claimed parts.
CompleteStart(t, u, parts) ==
    /\ mpPc[t] = "idle"
    /\ mpCalls < MaxRequests
    /\ IF ~StatBucketDir
       THEN /\ mpRet' = [Ret("complete", u, "BucketNotFound") EXCEPT !.parts = parts]
            /\ UNCHANGED <<mpPc, mpUp, mpParts>>
       ELSE IF ~UploadExists(uploads, u)
       THEN /\ mpRet' = [Ret("complete", u, "InvalidUploadID") EXCEPT !.parts = parts]
            /\ UNCHANGED <<mpPc, mpUp, mpParts>>
       ELSE IF ValidateParts(parts, partFiles[u]) # "ok"
       THEN /\ mpRet' = [Ret("complete", u, ValidateParts(parts, partFiles[u]))
                           EXCEPT !.parts = parts]
            /\ UNCHANGED <<mpPc, mpUp, mpParts>>
       ELSE /\ mpRet' = NoRet
            /\ mpPc' = [mpPc EXCEPT ![t] = "ba_map"]
            /\ mpUp' = [mpUp EXCEPT ![t] = u]
            /\ mpParts' = [mpParts EXCEPT ![t] = parts]
    /\ UNCHANGED <<fsVars, recVars, objVars, mpPart, mpFile, mpFallback, mpTmpData>>
    /\ mpCalls' = mpCalls + 1
    /\ UNCHANGED <<nsVars, extVars>>

\* CompleteMultipartUpload: under appendFileMapMu, the record is taken
\* out of the map.
CompleteTake(t) ==
    /\ mpPc[t] = "c_take"
    /\ mpFile' = [mpFile EXCEPT ![t] = appendFileMap[mpUp[t]]]
    /\ appendFileMap' = [appendFileMap EXCEPT ![mpUp[t]] = NoRec]
    /\ mpPc' = [mpPc EXCEPT ![t] = "c_verify"]
    /\ mpRet' = NoRet
    /\ UNCHANGED <<fsVars, recParts, recData, recMu, objVars, mpUp, mpPart,
                   mpParts, mpFallback, mpTmpData>>
    /\ UNCHANGED <<nsVars, extVars, mpCalls>>

\* The files the fallback loop appends to the fresh appendFilePath.
RECURSIVE PartsData(_)
PartsData(parts) ==
    IF parts = <<>> THEN <<>> ELSE <<parts[1][2]>> \o PartsData(Tail(parts))

\* CompleteMultipartUpload from "if file != nil" to the end of the
\* fallback: file.Lock() and the comparison of the record with the claimed
\* parts; with appendFallback, fsRemoveFile(file.filePath) and the loop of
\* AppendFile over the claimed parts.  With file == nil the dereference
\* in fsRemoveFile(file.filePath) panics and the request dies.
CompleteVerify(t) ==
    /\ mpPc[t] = "c_verify"
    /\ mpFile[t] # NoRec => recMu[mpFile[t]] = Free
    /\ LET r == mpFile[t]
           u == mpUp[t]
           removed == [recData EXCEPT ![r] = <<>>]
       IN  IF r = NoRec
           THEN CompleteReturn(t, "panic", recData)
           ELSE IF AppendFileHasAllParts(mpParts[t], recParts[r])
           THEN /\ recMu' = [recMu EXCEPT ![r] = t]
                /\ mpFallback' = [mpFallback EXCEPT ![t] = FALSE]
                /\ mpPc' = [mpPc EXCEPT ![t] = "c_lock"]
                /\ mpRet' = NoRet
                /\ UNCHANGED <<recParts, recData, objLock, mpFile, mpUp, mpParts,
                               mpTmpData>>
           ELSE IF \A i \in 1..Len(mpParts[t]) : SourceExists(partFiles[u], mpParts[t][i])
           THEN /\ recMu' = [recMu EXCEPT ![r] = t]
                /\ recData' = removed
                /\ mpTmpData' = [mpTmpData EXCEPT ![t] = PartsData(mpParts[t])]
                /\ mpPc' = [mpPc EXCEPT ![t] = "c_lock"]
                /\ mpRet' = NoRet
                /\ UNCHANGED <<recParts, objLock, mpFile, mpUp, mpParts, mpFallback>>
           ELSE CompleteReturn(t, "ObjectNotFound", removed)
    /\ UNCHANGED <<fsVars, appendFileMap, objData, objEtag, mpPart>>
    /\ UNCHANGED <<nsVars, extVars, mpCalls>>

CompleteGetLock_NoWait(t) ==
    /\ mpPc[t] = "c_lock"
    /\ objLock' = t
    /\ mpPc' = [mpPc EXCEPT ![t] = "c_commit"]
    /\ mpRet' = NoRet
    /\ UNCHANGED <<fsVars, recVars, objData, objEtag, mpUp, mpPart, mpParts,
                   mpFile, mpFallback, mpTmpData, nsVars, extVars, mpCalls>>

\* CompleteMultipartUpload: destLock.GetLock succeeds.
CompleteGetLock(t) ==
    /\ mpPc[t] = "c_lock"
    /\ objLock = Free
    /\ objLock' = t
    /\ mpPc' = [mpPc EXCEPT ![t] = "c_commit"]
    /\ mpRet' = NoRet
    /\ UNCHANGED <<fsVars, recVars, objData, objEtag, mpUp, mpPart, mpParts,
                   mpFile, mpFallback, mpTmpData>>
    /\ UNCHANGED <<nsVars, extVars, mpCalls>>

\* CompleteMultipartUpload: destLock.GetLock times out; the lock is held
\* by another CompleteMultipartUpload or by any other object operation.
CompleteGetLockTimeout(t) ==
    /\ mpPc[t] = "c_lock"
    /\ CompleteReturn(t, "OperationTimedOut", recData)
    /\ UNCHANGED <<fsVars, appendFileMap, objData, objEtag, mpPart>>
    /\ UNCHANGED <<nsVars, extVars, mpCalls>>

\* Where the disk may fail CompleteMultipartUpload under the lock; the
\* call then returns MetaError, RenameError or StatError.
Failures == {"none", "meta", "rename", "stat"}

\* CompleteMultipartUpload under the object's write lock, up to the write
\* of the metadata: the object's fs.json is created, the upload's fs.json
\* read and the metadata with the etag written.
CompleteWriteMeta(t, failure) ==
    /\ mpPc[t] = "c_commit"
    /\ IF failure = "meta"
       THEN /\ CompleteReturn(t, "MetaError", recData)
            /\ UNCHANGED objEtag
       ELSE IF ~UploadExists(uploads, mpUp[t])
       THEN /\ CompleteReturn(t, "ObjectNotFound", recData)
            /\ UNCHANGED objEtag
       ELSE /\ objEtag' = GetCompleteMultipartMD5(mpParts[t])
            /\ mpPc' = [mpPc EXCEPT ![t] = "c_rename"]
            /\ mpRet' = NoRet
            /\ UNCHANGED <<recParts, recData, recMu, objLock, mpUp, mpParts, mpFile,
                           mpFallback, mpTmpData>>
    /\ UNCHANGED <<fsVars, objData, appendFileMap, mpPart>>
    /\ UNCHANGED <<nsVars, extVars, mpCalls>>

CompleteCommit_RemovesFirst(t, failure) ==
    /\ mpPc[t] = "c_rename"
    /\ uploads' = RemoveAllDir(uploads, mpUp[t])
    /\ partFiles' = [partFiles EXCEPT ![mpUp[t]] = {}]
    /\ dirOld' = [dirOld EXCEPT ![mpUp[t]] = FALSE]
    /\ CompleteReturn(t, "RenameError", recData)
    /\ UNCHANGED <<objData, objEtag, appendFileMap, mpPart, nsVars, extVars, mpCalls>>

CompleteCommit_KeepsDir(t, failure) ==
    /\ mpPc[t] = "c_rename"
    /\ LET r == mpFile[t]
           data == IF mpFallback[t] THEN mpTmpData[t] ELSE recData[r]
           renamed == IF mpFallback[t] THEN recData ELSE [recData EXCEPT ![r] = <<>>]
       IN  IF failure # "none" \/ data = <<>>
           THEN /\ CompleteReturn(t, "RenameError", recData)
                /\ UNCHANGED objData
           ELSE /\ objData' = data
                /\ CompleteReturn(t, "nil", renamed)
    /\ UNCHANGED <<fsVars, objEtag, appendFileMap, mpPart, nsVars, extVars, mpCalls>>

\* CompleteMultipartUpload under the object's write lock, after the write
\* of the metadata: fsRenameFile(appendFilePath, object) (a file nothing
\* was appended to does not exist); fsRemoveAll(uploadIDDir);
\* fsStatFile(object) and the return.
CompleteCommit(t, failure) ==
    /\ mpPc[t] = "c_rename"
    /\ LET u == mpUp[t]
           r == mpFile[t]
           data == IF mpFallback[t] THEN mpTmpData[t] ELSE recData[r]
           renamed == IF mpFallback[t] THEN recData ELSE [recData EXCEPT ![r] = <<>>]
       IN  IF failure = "rename"
           THEN /\ CompleteReturn(t, "RenameError", recData)
                /\ UNCHANGED <<fsVars, objData>>
           ELSE IF data = <<>>
           THEN /\ CompleteReturn(t, "ObjectNotFound", recData)
                /\ UNCHANGED <<fsVars, objData>>
           ELSE /\ objData' = data
                /\ uploads' = RemoveAllDir(uploads, u)
                /\ partFiles' = [partFiles EXCEPT ![u] = {}]
                /\ dirOld' = [dirOld EXCEPT ![u] = FALSE]
                /\ CompleteReturn(t, IF failure = "stat" THEN "StatError" ELSE "nil", renamed)
    /\ UNCHANGED <<objEtag, appendFileMap, mpPart>>
    /\ UNCHANGED <<nsVars, extVars, mpCalls>>

AbortStart_NoBucketCheck(t, u) ==
    /\ mpPc[t] = "idle"
    /\ mpCalls < MaxRequests
    /\ LET map == [appendFileMap EXCEPT ![u] = NoRec]
           live == LiveRecs(map, mpFile)
       IN  /\ appendFileMap' = map
           /\ recParts' = CollectRecs(recParts, live, <<>>)
           /\ recData' = CollectRecs(recData, live, <<>>)
    /\ mpPc' = [mpPc EXCEPT ![t] = "a_stat"]
    /\ mpUp' = [mpUp EXCEPT ![t] = u]
    /\ mpRet' = NoRet
    /\ UNCHANGED <<fsVars, recMu, objVars, mpPart, mpParts, mpFile,
                   mpFallback, mpTmpData>>
    /\ mpCalls' = mpCalls + 1
    /\ UNCHANGED <<nsVars, extVars>>

\* AbortMultipartUpload: the bucket check, and under appendFileMapMu
\* the deletion of the record from the map.
AbortStart(t, u) ==
    /\ mpPc[t] = "idle"
    /\ mpCalls < MaxRequests
    /\ IF ~StatBucketDir
       THEN BucketNotFound("abort", u)
       ELSE LET map == [appendFileMap EXCEPT ![u] = NoRec]
                live == LiveRecs(map, mpFile)
            IN  /\ appendFileMap' = map
                /\ recParts' = CollectRecs(recParts, live, <<>>)
                /\ recData' = CollectRecs(recData, live, <<>>)
                /\ mpPc' = [mpPc EXCEPT ![t] = "a_stat"]
                /\ mpUp' = [mpUp EXCEPT ![t] = u]
                /\ mpRet' = NoRet
                /\ UNCHANGED <<fsVars, recMu, objVars, mpPart, mpParts, mpFile,
                               mpFallback, mpTmpData>>
    /\ mpCalls' = mpCalls + 1
    /\ UNCHANGED <<nsVars, extVars>>

AbortStat_NoCheck(t) ==
    /\ mpPc[t] = "a_stat"
    /\ mpPc' = [mpPc EXCEPT ![t] = "a_remove"]
    /\ mpRet' = NoRet
    /\ UNCHANGED <<fsVars, recVars, objVars, mpUp, mpPart, mpParts, mpFile,
                   mpFallback, mpTmpData, nsVars, extVars, mpCalls>>

\* AbortMultipartUpload: the upload-id check.
AbortStat(t) ==
    /\ mpPc[t] = "a_stat"
    /\ IF UploadExists(uploads, mpUp[t])
       THEN /\ mpPc' = [mpPc EXCEPT ![t] = "a_remove"]
            /\ mpRet' = NoRet
            /\ UNCHANGED mpUp
       ELSE /\ mpPc' = [mpPc EXCEPT ![t] = "idle"]
            /\ mpRet' = Ret("abort", mpUp[t], "InvalidUploadID")
            /\ mpUp' = [mpUp EXCEPT ![t] = NoUpload]
    /\ UNCHANGED <<fsVars, recVars, objVars, mpPart, mpParts, mpFile,
                   mpFallback, mpTmpData>>
    /\ UNCHANGED <<nsVars, extVars, mpCalls>>

\* AbortMultipartUpload: fsRemoveAll(uploadIDDir) and the return of nil.
AbortRemoveAll(t) ==
    /\ mpPc[t] = "a_remove"
    /\ uploads' = RemoveAllDir(uploads, mpUp[t])
    /\ partFiles' = [partFiles EXCEPT ![mpUp[t]] = {}]
    /\ dirOld' = [dirOld EXCEPT ![mpUp[t]] = FALSE]
    /\ mpPc' = [mpPc EXCEPT ![t] = "idle"]
    /\ mpRet' = Ret("abort", mpUp[t], "nil")
    /\ mpUp' = [mpUp EXCEPT ![t] = NoUpload]
    /\ UNCHANGED <<recVars, objVars, mpPart, mpParts, mpFile, mpFallback, mpTmpData>>
    /\ UNCHANGED <<nsVars, extVars, mpCalls>>

-----------------------------------------------------------------------------
(* cleanupStaleMultipartUploads: the goroutine that purges stale uploads.   *)

\* More than expiry passes without a change to the upload-id directory;
\* the cleaner compares with the time of its wake-up, so what passes
\* during a scan does not count for it.
TimePasses(u) ==
    /\ clPc = "sleep"
    /\ uploads[u] = "active"
    /\ ~dirOld[u]
    /\ dirOld' = [dirOld EXCEPT ![u] = TRUE]
    /\ mpRet' = NoRet
    /\ UNCHANGED <<uploads, partFiles, recVars, objVars, mpPc, mpUp, mpPart, mpParts,
                   mpFile, mpFallback, mpTmpData, mpCalls>>
    /\ UNCHANGED <<nsVars, vlVars, clVars, bucketDir, auxVars>>

CleanerWake_TickerGoesOn ==
    /\ clPc = "sleep"
    /\ clPc' = "scan"
    /\ clTodo' = {u \in Uploads : uploads[u] = "active"}
    /\ mpRet' = NoRet
    /\ UNCHANGED <<fsVars, recVars, objVars, mpPc, mpUp, mpPart, mpParts,
                   mpFile, mpFallback, mpTmpData, mpCalls>>
    /\ UNCHANGED <<nsVars, vlVars, clRun, clStarts, bucketDir, auxVars>>

\* case <-ticker.C: now := time.Now(); readDir lists the upload-id
\* directories.  Only a goroutine that has not returned is in the select.
CleanerWake ==
    /\ clRun
    /\ clPc = "sleep"
    /\ clPc' = "scan"
    /\ clTodo' = {u \in Uploads : uploads[u] = "active"}
    /\ mpRet' = NoRet
    /\ UNCHANGED <<fsVars, recVars, objVars, mpPc, mpUp, mpPart, mpParts,
                   mpFile, mpFallback, mpTmpData, mpCalls>>
    /\ UNCHANGED <<nsVars, vlVars, clRun, clStarts, bucketDir, auxVars>>

\* case <-doneCh: a signal sent on the done channel is received in the
\* select; ticker.Stop() and return.
CleanerDone ==
    /\ clRun
    /\ clPc = "sleep"
    /\ clRun' = FALSE
    /\ mpRet' = NoRet
    /\ UNCHANGED <<fsVars, recVars, objVars, mpPc, mpUp, mpPart, mpParts,
                   mpFile, mpFallback, mpTmpData, mpCalls>>
    /\ UNCHANGED <<nsVars, vlVars, clPc, clTodo, clStarts, bucketDir, auxVars>>

\* The goroutines started on one FSObjects after the one initFSObjects starts.
MaxCleanerStarts == 1

\* "go fs.cleanupStaleMultipartUploads(20*time.Millisecond, 0,
\* globalServiceDoneCh)" once the running goroutine was closed: a new
\* goroutine with a new ticker, on the same done channel.
CleanerStart ==
    /\ ~clRun
    /\ clStarts < MaxCleanerStarts
    /\ clStarts' = clStarts + 1
    /\ clRun' = TRUE
    /\ mpRet' = NoRet
    /\ UNCHANGED <<fsVars, recVars, objVars, mpPc, mpUp, mpPart, mpParts,
                   mpFile, mpFallback, mpTmpData, mpCalls>>
    /\ UNCHANGED <<nsVars, vlVars, clPc, clTodo, bucketDir, auxVars>>

CleanerDir_RemovesAll(u) ==
    /\ clPc = "scan"
    /\ u \in clTodo
    /\ clTodo' = clTodo \ {u}
    /\ uploads' = RemoveAllDir(uploads, u)
    /\ partFiles' = [partFiles EXCEPT ![u] = {}]
    /\ dirOld' = [dirOld EXCEPT ![u] = FALSE]
    /\ mpRet' = NoRet
    /\ UNCHANGED <<recVars, objVars, mpPc, mpUp, mpPart, mpParts,
                   mpFile, mpFallback, mpTmpData, mpCalls, nsVars, vlVars, clPc, clRun, clStarts,
                   bucketDir, auxVars>>

\* One upload-id of the listing: fsStatDir (the directory may be gone by
\* now), and fsRemoveAll when now.Sub(fi.ModTime()) > expiry.
CleanerDir(u) ==
    /\ clPc = "scan"
    /\ u \in clTodo
    /\ clTodo' = clTodo \ {u}
    /\ IF uploads[u] = "active" /\ dirOld[u]
       THEN /\ uploads' = RemoveAllDir(uploads, u)
            /\ partFiles' = [partFiles EXCEPT ![u] = {}]
            /\ dirOld' = [dirOld EXCEPT ![u] = FALSE]
       ELSE UNCHANGED fsVars
    /\ mpRet' = NoRet
    /\ UNCHANGED <<recVars, objVars, mpPc, mpUp, mpPart, mpParts,
                   mpFile, mpFallback, mpTmpData, mpCalls>>
    /\ UNCHANGED <<nsVars, vlVars, clPc, clRun, clStarts, bucketDir, auxVars>>

\* The listing is done: back to the select on the ticker.
CleanerSleep ==
    /\ clPc = "scan"
    /\ clTodo = {}
    /\ clPc' = "sleep"
    /\ mpRet' = NoRet
    /\ UNCHANGED <<fsVars, recVars, objVars, mpPc, mpUp, mpPart, mpParts,
                   mpFile, mpFallback, mpTmpData, mpCalls>>
    /\ UNCHANGED <<nsVars, vlVars, clTodo, clRun, clStarts, bucketDir, auxVars>>

-----------------------------------------------------------------------------
(* The validation of a parts list, on its own: parts lists of up to        *)
(* MaxValPart parts over part files of three sizes.                        *)

\* The highest part number, and the longest parts list.
MaxValPart == 3

\* Part files of 1 byte ("b"), of the minimum size ("a") and of twice the
\* minimum size ("c").
ValETags == ETags \cup {"c"}

ValParts == (1..MaxValPart) \X ValETags

\* Parts lists in ascending order of part number.
ValPartLists ==
    {l \in UNION {[1..n -> ValParts] : n \in 0..MaxValPart} :
        \A i \in 1..(Len(l) - 1) : l[i][1] < l[i + 1][1]}

\* What an upload-id directory may hold: up to MaxValPart part files.
ValDirs == {d \in SUBSET ValParts : Cardinality(d) <= MaxValPart}

VlInit ==
    /\ vlParts \in ValPartLists
    /\ vlFiles \in ValDirs
    /\ vlResult = "-"

\* initFSObjects starts the cleaner, which waits for its ticker.
ClInit ==
    /\ clPc = "sleep"
    /\ clTodo = {}
    /\ clRun = TRUE
    /\ clStarts = 0

\* Outside the validation model.
VlIdle ==
    /\ vlParts = <<>>
    /\ vlFiles = {}
    /\ vlResult = "-"

\* CompleteMultipartUpload, the validation loop.
Validate ==
    /\ vlResult = "-"
    /\ vlResult' = ValidateParts(vlParts, vlFiles)
    /\ UNCHANGED <<vlParts, vlFiles, nsVars, mpVars, clVars, bucketDir, auxVars>>

-----------------------------------------------------------------------------
(* ListObjectParts on its own: an upload-id directory of up to MaxEntries  *)
(* part files, read in any order.                                          *)

\* The highest part number in the directory.
MaxListPart == 2

\* The most part files in the directory.
MaxEntries == 3

\* The latest modtime.
MaxModTime == 2

\* The part files "<partNumber>.<etag>" a directory may hold.
ListFiles == (1..MaxListPart) \X ETags

\* What readDir may return: distinct names, in any order.
ListDirs ==
    {l \in UNION {[1..n -> ListFiles] : n \in 0..MaxEntries} :
        \A i, j \in 1..Len(l) : l[i] = l[j] => i = j}

NoETag == ""

After_Before(t1, t2) == t1 < t2

\* time.Time.After
After(t1, t2) == t1 > t2

\* fsStatFile(encodePartFile(partNumber, etag)).ModTime()
StatModTime(entries, modTime, partNumber, etag) ==
    modTime[CHOOSE i \in 1..Len(entries) : entries[i] = <<partNumber, etag>>]

\* The loop over the entries: partsMap keeps, of the files of one part
\* number, the first one read unless a later one read is newer.
RECURSIVE PartsMapFrom(_, _, _, _)
PartsMapFrom(entries, modTime, i, partsMap) ==
    IF i > Len(entries) THEN partsMap
    ELSE LET partNumber == entries[i][1]
             etag1 == entries[i][2]
             etag2 == partsMap[partNumber]
         IN  IF etag2 = NoETag
             THEN PartsMapFrom(entries, modTime, i + 1,
                               [partsMap EXCEPT ![partNumber] = etag1])
             ELSE IF After(StatModTime(entries, modTime, partNumber, etag1),
                           StatModTime(entries, modTime, partNumber, etag2))
             THEN PartsMapFrom(entries, modTime, i + 1,
                               [partsMap EXCEPT ![partNumber] = etag1])
             ELSE PartsMapFrom(entries, modTime, i + 1, partsMap)

\* The parts of partsMap, after sort.SliceStable by part number.
RECURSIVE SortedParts(_, _)
SortedParts(partsMap, from) ==
    IF from > MaxListPart THEN <<>>
    ELSE IF partsMap[from] = NoETag THEN SortedParts(partsMap, from + 1)
    ELSE <<<<from, partsMap[from]>>>> \o SortedParts(partsMap, from + 1)

\* The index after the skip to the marker.
RECURSIVE SkipToMarker(_, _, _)
SkipToMarker(parts, marker, i) ==
    IF i >= Len(parts) THEN i
    ELSE IF parts[i + 1][1] = marker THEN i + 1
    ELSE SkipToMarker(parts, marker, i + 1)

ListedParts(entries, modTime, marker, maxParts) ==
    LET parts == SortedParts(PartsMapFrom(entries, modTime, 1,
                                          [n \in 1..MaxListPart |-> NoETag]), 1)
        i == IF marker # 0 THEN SkipToMarker(parts, marker, 0) ELSE 0
        last == IF i + maxParts < Len(parts) THEN i + maxParts ELSE Len(parts)
    IN  [parts |-> SubSeq(parts, i + 1, last),
         isTruncated |-> last < Len(parts),
         nextPartNumberMarker |->
             IF last < Len(parts) /\ last - i # 0 THEN parts[last][1] ELSE 0,
         err |-> "nil"]

NoList == [parts |-> <<>>, isTruncated |-> FALSE, nextPartNumberMarker |-> 0,
           err |-> "none"]

LpInit ==
    /\ lpEntries \in ListDirs
    /\ lpModTime \in [1..Len(lpEntries) -> 1..MaxModTime]
    /\ lpMarker \in 0..MaxListPart
    /\ lpMaxParts \in 1..MaxListPart
    /\ lpResult = NoList

\* Outside the listing model.
LpIdle ==
    /\ lpEntries = <<>>
    /\ lpModTime = <<>>
    /\ lpMarker = 0
    /\ lpMaxParts = 0
    /\ lpResult = NoList

\* ListObjectParts from readDir on.
ListParts ==
    /\ lpResult.err = "none"
    /\ lpResult' = ListedParts(lpEntries, lpModTime, lpMarker, lpMaxParts)
    /\ UNCHANGED <<lpEntries, lpModTime, lpMarker, lpMaxParts>>
    /\ UNCHANGED <<nsVars, mpVars, vlVars, clVars, bucketDir, hfVars, svcVars>>

-----------------------------------------------------------------------------
(* ErasureStorage.HealFile on its own: one file of up to MaxBlocks blocks  *)
(* over NumDisks disks, every AppendFile free to fail.                     *)

\* len(s.disks)
NumDisks == 4

\* s.dataBlocks: the shards a block is rebuilt from.
DataBlocks == 2

\* The most blocks of the file.
MaxBlocks == 2

\* blocksize
BlockSize == 4

Disks == 1..NumDisks

\* ceilFrac
CeilFrac(numerator, denominator) == (numerator + denominator - 1) \div denominator

ChunkSize == CeilFrac(BlockSize, DataBlocks)

LastChunkSize_Full(size) == ChunkSize

\* The chunk size of the last block, smaller when the size is not a
\* multiple of the block size.
LastChunkSize(size) ==
    IF size % BlockSize # 0 THEN CeilFrac(size % BlockSize, DataBlocks) ELSE ChunkSize

\* The length of the part file of each disk.
ReadLen(size) == ChunkSize * (CeilFrac(size, BlockSize) - 1) + LastChunkSize(size)

\* The part file of disk i: byte p of it is written <<i, p>>.
Shard(i, len) == [p \in 1..len |-> <<i, p>>]

StaleDisks == {i \in Disks : hfDisk[i] = "stale"}

\* The disks readConcurrent gets verified data from.
ValidDisks == {i \in Disks : hfDisk[i] = "valid"}

\* A nil checksum, and hashers[i].Sum(nil) of the blocks written.
NilSum == <<>>

Sum(written) == <<written>>

HfInit ==
    /\ hfDisk \in [Disks -> {"valid", "stale", "offline"}]
    /\ hfSize \in 0..(MaxBlocks * BlockSize)
    /\ hfNumBlocks = CeilFrac(hfSize, BlockSize)
    /\ hfOffset = 0
    /\ hfData = [i \in Disks |-> <<>>]
    /\ hfAlg \in BOOLEAN
    /\ hfPc = "start"
    /\ hfBlock = 0
    /\ hfWriteErrors = [i \in Disks |-> FALSE]
    /\ hfDst = [i \in Disks |-> <<>>]
    /\ hfTried = [i \in Disks |-> 0]
    /\ hfHashers = [i \in Disks |-> <<>>]
    /\ hfChecksums = <<>>
    /\ hfRet = "none"

\* Outside the heal model.
HfIdle ==
    /\ hfDisk = [i \in Disks |-> "offline"]
    /\ hfSize = 0
    /\ hfNumBlocks = 0
    /\ hfOffset = 0
    /\ hfData = [i \in Disks |-> <<>>]
    /\ hfAlg = TRUE
    /\ hfPc = "done"
    /\ hfBlock = 0
    /\ hfWriteErrors = [i \in Disks |-> FALSE]
    /\ hfDst = [i \in Disks |-> <<>>]
    /\ hfTried = [i \in Disks |-> 0]
    /\ hfHashers = [i \in Disks |-> <<>>]
    /\ hfChecksums = <<>>
    /\ hfRet = "none"

hfInputs == <<hfDisk, hfNumBlocks, hfAlg, hfSize>>

\* HealFile up to the loop: the algorithm check, f.Checksums allocated,
\* and readConcurrent, which fails without DataBlocks valid disks.
HealStart ==
    /\ hfPc = "start"
    /\ IF ~hfAlg
       THEN /\ hfRet' = "errBitrotHashAlgoInvalid"
            /\ hfPc' = "done"
            /\ UNCHANGED hfChecksums
       ELSE /\ hfChecksums' = [i \in Disks |-> NilSum]
            /\ IF Cardinality(ValidDisks) < DataBlocks
               THEN /\ hfRet' = "errXLReadQuorum"
                    /\ hfPc' = "done"
               ELSE /\ hfRet' = "none"
                    /\ hfPc' = IF hfNumBlocks > 0 THEN "loop" ELSE "copy"
    /\ UNCHANGED <<hfInputs, hfBlock, hfWriteErrors, hfDst, hfTried, hfHashers,
                   hfOffset, hfData>>
    /\ UNCHANGED <<nsVars, mpVars, vlVars, clVars, bucketDir, lpVars, svcVars>>

Written_StopsAtError(failing) ==
    {i \in StaleDisks : ~hfWriteErrors[i] /\ \A j \in failing : i <= j}

Written_AllStale(failing) == StaleDisks

\* The disks the loop over staleDisks calls AppendFile on.
Written(failing) == {i \in StaleDisks : ~hfWriteErrors[i]}

\* buffers[i] of readConcurrent: the verified part file of a valid disk,
\* nothing for the others.
Buffers(i) == IF i \in ValidDisks THEN Shard(i, ReadLen(hfSize)) ELSE <<>>

\* csize
CSize(blockNumber) ==
    IF blockNumber = hfNumBlocks - 1 THEN LastChunkSize(hfSize) ELSE ChunkSize

\* blocks[i] before the decode: the chunk of the block in buffers[i].
ReadBlocks(offset, csize) ==
    [i \in Disks |-> IF Len(Buffers(i)) # 0
                     THEN SubSeq(Buffers(i), offset + 1, offset + csize)
                     ELSE <<>>]

\* ErasureDecodeDataAndParityBlocks: the empty shards are rebuilt from
\* the others; from chunks of one stripe comes the chunk of the same
\* stripe of each missing index, from anything else no chunk of the file.
Garbage == <<"?">>

ErasureDecodeDataAndParityBlocks(blocks) ==
    LET present == {j \in Disks : Len(blocks[j]) # 0}
        j0 == CHOOSE j \in present : TRUE
        stripe == [k \in 1..Len(blocks[j0]) |-> blocks[j0][k][2]]
        aligned == \A j \in present :
                       /\ Len(blocks[j]) = Len(stripe)
                       /\ \A k \in 1..Len(stripe) : blocks[j][k] = <<j, stripe[k]>>
    IN  [i \in Disks |->
            IF i \in present THEN blocks[i]
            ELSE IF aligned THEN [k \in 1..Len(stripe) |-> <<i, stripe[k]>>]
            ELSE Garbage]

NextOffset_Stays(offset, csize) == offset

\* buffOffset += csize
NextOffset(offset, csize) == offset + csize

\* One pass of the loop over the blocks: the block is rebuilt, and
\* appended to every stale disk without an earlier write error; AppendFile
\* fails on the disks in failing.  Without one append that succeeds the
\* call returns the joined write errors.
HealBlock(failing) ==
    /\ hfPc = "loop"
    /\ failing \subseteq {i \in StaleDisks : ~hfWriteErrors[i]}
    /\ LET tried == Written(failing)
           ok == tried \ failing
           blocks == ErasureDecodeDataAndParityBlocks(ReadBlocks(hfOffset, CSize(hfBlock)))
       IN  /\ hfOffset' = NextOffset(hfOffset, CSize(hfBlock))
           /\ hfData' = [i \in Disks |->
                            IF i \in ok THEN hfData[i] \o blocks[i] ELSE hfData[i]]
           /\ hfTried' = [i \in Disks |-> IF i \in tried THEN hfTried[i] + 1 ELSE hfTried[i]]
           /\ hfWriteErrors' = [i \in Disks |->
                                   IF i \in tried THEN i \in failing ELSE hfWriteErrors[i]]
           /\ hfDst' = [i \in Disks |->
                           IF i \in ok THEN Append(hfDst[i], hfBlock) ELSE hfDst[i]]
           /\ hfHashers' = [i \in Disks |->
                               IF i \in ok THEN Append(hfHashers[i], hfBlock)
                               ELSE hfHashers[i]]
           /\ IF ok = {}
              THEN /\ hfRet' = "all stale disks had write errors"
                   /\ hfPc' = "done"
                   /\ UNCHANGED hfBlock
              ELSE /\ hfBlock' = hfBlock + 1
                   /\ hfPc' = IF hfBlock + 1 < hfNumBlocks THEN "loop" ELSE "copy"
                   /\ hfRet' = "none"
    /\ UNCHANGED <<hfInputs, hfChecksums>>
    /\ UNCHANGED <<nsVars, mpVars, vlVars, clVars, bucketDir, lpVars, svcVars>>

Healed_All == StaleDisks

\* The disks whose checksums are kept for the output.
Healed == {i \in StaleDisks : ~hfWriteErrors[i]}

\* After the loop: the hashes of the stale disks without a write error
\* are copied into f.Checksums, and the call returns nil.
HealCopy ==
    /\ hfPc = "copy"
    /\ hfChecksums' = [i \in Disks |-> IF i \in Healed THEN Sum(hfHashers[i]) ELSE NilSum]
    /\ hfRet' = "nil"
    /\ hfPc' = "done"
    /\ UNCHANGED <<hfInputs, hfBlock, hfWriteErrors, hfDst, hfTried, hfHashers,
                   hfOffset, hfData>>
    /\ UNCHANGED <<nsVars, mpVars, vlVars, clVars, bucketDir, lpVars, svcVars>>

HealNext ==
    \/ HealStart
    \/ \E failing \in SUBSET Disks : HealBlock(failing)
    \/ HealCopy

-----------------------------------------------------------------------------
(* The admin RPC server, the peer RPC server and the local admin client.   *)

\* The most requests.
MaxAdminCalls == 3

\* serviceSignal: serviceRestart, serviceStop, and serviceStatus for any
\* other value.
Signals == {"restart", "stop", "status"}

\* The names a temporary config file may be given.
TmpFileNames == {"tmp1", "tmp2"}

NoFile == "-"

\* AuthRPCArgs: whether the version is the server's, and whether the
\* token is valid.
AuthRPCArgs == [version : BOOLEAN, token : BOOLEAN]

\* AuthRPCArgs.IsAuthenticated: the version is checked, then the token.
IsAuthenticated(args) ==
    IF ~args.version THEN "errRPCAPIVersionUnsupported"
    ELSE IF ~args.token THEN "errInvalidToken"
    ELSE "nil"

AdRet(handler, args, sig, err) ==
    [handler |-> handler, valid |-> args.version /\ args.token, sig |-> sig, err |-> err]

AdInit ==
    /\ adSent = <<>>
    /\ adTmpFiles = {}
    /\ adConfig = NoFile
    /\ adObjCalls = {}
    /\ adRet = [handler |-> "none", valid |-> TRUE, sig |-> "-", err |-> "none"]
    /\ adCalls = 0

\* A request is made.
AdCall ==
    /\ adCalls < MaxAdminCalls
    /\ adCalls' = adCalls + 1
    /\ UNCHANGED <<nsVars, mpVars, vlVars, clVars, bucketDir, lpVars, hfVars, dsVars, rpcVars>>

\* adminCmd.SignalService
AdminSignalService(args, sig) ==
    /\ AdCall
    /\ IF IsAuthenticated(args) # "nil"
       THEN /\ adRet' = AdRet("Admin.SignalService", args, sig, IsAuthenticated(args))
            /\ UNCHANGED adSent
       ELSE /\ adSent' = Append(adSent, sig)
            /\ adRet' = AdRet("Admin.SignalService", args, sig, "nil")
    /\ UNCHANGED <<adTmpFiles, adConfig, adObjCalls>>

\* The switch of peerRPCReceiver.SignalService and of
\* localAdminClient.SignalService.
SignalSwitch(handler, args, sig) ==
    /\ IF sig \in {"restart", "stop"}
       THEN /\ adSent' = Append(adSent, sig)
            /\ adRet' = AdRet(handler, args, sig, "nil")
       ELSE /\ adRet' = AdRet(handler, args, sig, "errUnsupportedSignal")
            /\ UNCHANGED adSent
    /\ UNCHANGED <<adTmpFiles, adConfig, adObjCalls>>

\* peerRPCReceiver.SignalService
PeerSignalService(args, sig) == AdCall /\ SignalSwitch("Peer.SignalService", args, sig)

\* localAdminClient.SignalService
LocalSignalService(sig) ==
    AdCall /\ SignalSwitch("local.SignalService", [version |-> TRUE, token |-> TRUE], sig)

\* A handler that calls the object layer once authenticated:
\* ReInitFormat (ReloadFormat), ListLocks, ServerInfoData (StorageInfo);
\* without an object layer it returns errServerNotInitialized.
ObjectLayerHandlers == {"Admin.ReInitFormat", "Admin.ListLocks", "Admin.ServerInfoData"}

ObjectLayerCall(handler, args, initialized) ==
    /\ AdCall
    /\ handler \in ObjectLayerHandlers
    /\ IF IsAuthenticated(args) # "nil"
       THEN /\ adRet' = AdRet(handler, args, "-", IsAuthenticated(args))
            /\ UNCHANGED adObjCalls
       ELSE IF ~initialized
       THEN /\ adRet' = AdRet(handler, args, "-", "errServerNotInitialized")
            /\ UNCHANGED adObjCalls
       ELSE /\ adObjCalls' = adObjCalls \cup {handler}
            /\ adRet' = AdRet(handler, args, "-", "nil")
    /\ UNCHANGED <<adSent, adTmpFiles, adConfig>>

\* adminCmd.GetConfig
GetConfig(args) ==
    /\ AdCall
    /\ adRet' = AdRet("Admin.GetConfig", args, "-", IsAuthenticated(args))
    /\ UNCHANGED <<adSent, adTmpFiles, adConfig, adObjCalls>>

\* adminCmd.WriteTmpConfig
WriteTmpConfig(args, tmpFileName) ==
    /\ AdCall
    /\ IF IsAuthenticated(args) # "nil"
       THEN /\ adRet' = AdRet("Admin.WriteTmpConfig", args, "-", IsAuthenticated(args))
            /\ UNCHANGED adTmpFiles
       ELSE /\ adTmpFiles' = adTmpFiles \cup {tmpFileName}
            /\ adRet' = AdRet("Admin.WriteTmpConfig", args, "-", "nil")
    /\ UNCHANGED <<adSent, adConfig, adObjCalls>>

\* adminCmd.CommitConfig: os.Rename of the temporary file.
CommitConfig(args, fileName) ==
    /\ AdCall
    /\ IF fileName \in adTmpFiles
       THEN /\ adConfig' = fileName
            /\ adTmpFiles' = adTmpFiles \ {fileName}
            /\ adRet' = AdRet("Admin.CommitConfig", args, "-", "nil")
       ELSE /\ adRet' = AdRet("Admin.CommitConfig", args, "-", "ENOENT")
            /\ UNCHANGED <<adTmpFiles, adConfig>>
    /\ UNCHANGED <<adSent, adObjCalls>>

AdminNext ==
    \E args \in AuthRPCArgs :
        \/ \E sig \in Signals : AdminSignalService(args, sig)
        \/ \E sig \in Signals : PeerSignalService(args, sig)
        \/ \E sig \in Signals : LocalSignalService(sig)
        \/ \E handler \in ObjectLayerHandlers, initialized \in BOOLEAN :
               ObjectLayerCall(handler, args, initialized)
        \/ GetConfig(args)
        \/ \E tmpFileName \in TmpFileNames : WriteTmpConfig(args, tmpFileName)
        \/ \E fileName \in TmpFileNames : CommitConfig(args, fileName)

-----------------------------------------------------------------------------
(* sendServiceCmd: the command goes to cps[1:] in one goroutine each, and   *)
(* to cps[0], the local peer, by the caller itself.                         *)

\* len(cps) - 1
NumRemotePeers == 2

\* The indices of cps; cps[0] is the local peer.
Peers == 0..NumRemotePeers

RemotePeers == 1..NumRemotePeers

ScInit ==
    /\ scCmd \in Signals
    /\ scPc = "spawn"
    /\ scPeer = [i \in Peers |-> "none"]
    /\ scWg = 0
    /\ scErrs = [i \in Peers |-> "unset"]

\* No sendServiceCmd is made.
ScIdle ==
    /\ scCmd = "restart"
    /\ scPc = "idle"
    /\ scPeer = [i \in Peers |-> "none"]
    /\ scWg = 0
    /\ scErrs = [i \in Peers |-> "unset"]

ScRest == <<nsVars, mpVars, vlVars, clVars, bucketDir, lpVars, hfVars, adVars, dsVars,
            gcVars, lcVars, llVars>>

\* One pass of "for i := range remotePeers": wg.Add(1) and the go statement.
SpawnRemote ==
    /\ scPc = "spawn"
    /\ \E i \in RemotePeers :
          /\ scPeer[i] = "none"
          /\ \A j \in RemotePeers : j < i => scPeer[j] # "none"
          /\ scWg' = scWg + 1
          /\ scPeer' = [scPeer EXCEPT ![i] = "spawned"]
    /\ UNCHANGED <<scCmd, scPc, scErrs, ScRest>>

\* The loop is over: the caller reaches wg.Wait().
SpawnDone ==
    /\ scPc = "spawn"
    /\ \A i \in RemotePeers : scPeer[i] # "none"
    /\ scPc' = "wait"
    /\ UNCHANGED <<scCmd, scPeer, scWg, scErrs, ScRest>>

\* invokeServiceCmd calls cp.cmdRunner.SignalService(cmd) for a restart or
\* a stop, and nothing otherwise.
Invokes(cmd) == cmd \in {"restart", "stop"}

\* The goroutine of remote peer i calls invokeServiceCmd.
RemoteInvoke(i) ==
    /\ scPeer[i] = "spawned"
    /\ scPeer' = [scPeer EXCEPT ![i] = "invoking"]
    /\ UNCHANGED <<scCmd, scPc, scWg, scErrs, ScRest>>

\* invokeServiceCmd returns to the goroutine of remote peer i with err:
\* errs[idx+1] is assigned and the deferred wg.Done() runs.
RemoteReturn(i, err) ==
    /\ scPeer[i] = "invoking"
    /\ ~Invokes(scCmd) => err = "nil"
    /\ scPeer' = [scPeer EXCEPT ![i] = "returned"]
    /\ scErrs' = [scErrs EXCEPT ![i] = err]
    /\ scWg' = scWg - 1
    /\ UNCHANGED <<scCmd, scPc, ScRest>>

WgWait_NoWait ==
    /\ scPc = "wait"
    /\ scPc' = "local"
    /\ UNCHANGED <<scCmd, scPeer, scWg, scErrs, ScRest>>

\* wg.Wait() returns: the counter is zero.
WgWait ==
    /\ scPc = "wait"
    /\ scWg = 0
    /\ scPc' = "local"
    /\ UNCHANGED <<scCmd, scPeer, scWg, scErrs, ScRest>>

\* The caller calls invokeServiceCmd(cps[0], cmd).
LocalInvoke ==
    /\ scPc = "local"
    /\ scPeer[0] = "none"
    /\ scPeer' = [scPeer EXCEPT ![0] = "invoking"]
    /\ UNCHANGED <<scCmd, scPc, scWg, scErrs, ScRest>>

\* It returns with err: errs[0] is assigned and sendServiceCmd returns.
LocalReturn(err) ==
    /\ scPc = "local"
    /\ scPeer[0] = "invoking"
    /\ ~Invokes(scCmd) => err = "nil"
    /\ scPeer' = [scPeer EXCEPT ![0] = "returned"]
    /\ scErrs' = [scErrs EXCEPT ![0] = err]
    /\ scPc' = "done"
    /\ UNCHANGED <<scCmd, scWg, ScRest>>

SendServiceCmdNext ==
    \/ SpawnRemote
    \/ SpawnDone
    \/ \E i \in RemotePeers : RemoteInvoke(i)
    \/ \E i \in RemotePeers, err \in {"nil", "err"} : RemoteReturn(i, err)
    \/ WgWait
    \/ LocalInvoke
    \/ \E err \in {"nil", "err"} : LocalReturn(err)

-----------------------------------------------------------------------------
(* getValidServerConfig on the configs fetched from up to MaxServers        *)
(* servers.                                                                 *)

\* The most servers asked.
MaxServers == 3

\* The server configs: a credential and a region.
ServerConfigs == [credential : {"p1", "p2"}, region : {"us-east-1", "us-west-1"}]

\* The zero value of serverConfig.
NoServerConfig == [credential |-> "", region |-> ""]

\* serverConfig.ConfigDiff: the first section in which the two differ.
ConfigDiff(s, t) ==
    IF s.credential # t.credential THEN "Credential configuration differs"
    ELSE IF s.region # t.region THEN "Region configuration differs"
    ELSE ""

FetchFailed_Never(errs, i) == FALSE

\* errs[i] != nil
FetchFailed(errs, i) == errs[i]

\* The loop over j: the index whose counter server i adds to, which is
\* the lowest index of an equal config counted so far, or i itself.
RECURSIVE CounterOf(_, _, _, _)
CounterOf(serverConfigs, configCounter, i, j) ==
    IF j < i /\ configCounter[j] = 0
    THEN CounterOf(serverConfigs, configCounter, i, j + 1)
    ELSE IF j < i /\ ConfigDiff(serverConfigs[i], serverConfigs[j]) = "" THEN j
    ELSE IF j = i THEN i
    ELSE CounterOf(serverConfigs, configCounter, i, j + 1)

\* The loop over the servers: configCounter after servers i and up.
RECURSIVE ConfigCounter(_, _, _, _)
ConfigCounter(serverConfigs, errs, configCounter, i) ==
    IF i > Len(serverConfigs) THEN configCounter
    ELSE IF FetchFailed(errs, i)
    THEN ConfigCounter(serverConfigs, errs, configCounter, i + 1)
    ELSE LET j == CounterOf(serverConfigs, configCounter, i, 1)
         IN  ConfigCounter(serverConfigs, errs,
                           [configCounter EXCEPT ![j] = @ + 1], i + 1)

\* The loop over configCounter: maxOccurrence and configJSON.
RECURSIVE MaxOccurrence(_, _, _, _)
MaxOccurrence(serverConfigs, configCounter, i, best) ==
    IF i > Len(serverConfigs) THEN best
    ELSE IF best.maxOccurrence < configCounter[i]
    THEN MaxOccurrence(serverConfigs, configCounter, i + 1,
                       [maxOccurrence |-> configCounter[i],
                        configJSON |-> serverConfigs[i]])
    ELSE MaxOccurrence(serverConfigs, configCounter, i + 1, best)

\* quorum := len(serverConfigs)/2 + 1
ConfigQuorum(serverConfigs) == Len(serverConfigs) \div 2 + 1

getValidServerConfig(serverConfigs, errs) ==
    LET configCounter == ConfigCounter(serverConfigs, errs,
                                       [i \in 1..Len(serverConfigs) |-> 0], 1)
        best == MaxOccurrence(serverConfigs, configCounter, 1,
                              [maxOccurrence |-> 0, configJSON |-> NoServerConfig])
    IN  IF best.maxOccurrence < ConfigQuorum(serverConfigs)
        THEN [scv |-> NoServerConfig, err |-> "errXLWriteQuorum"]
        ELSE [scv |-> best.configJSON, err |-> "nil"]

NoConfigRet == [scv |-> NoServerConfig, err |-> "none"]

GcInit ==
    /\ \E n \in 0..MaxServers :
          /\ gcServerConfigs \in [1..n -> ServerConfigs]
          /\ gcErrs \in [1..n -> BOOLEAN]
    /\ gcRet = NoConfigRet

\* No getValidServerConfig is made.
GcIdle ==
    /\ gcServerConfigs = <<>>
    /\ gcErrs = <<>>
    /\ gcRet = NoConfigRet

GetValidServerConfig ==
    /\ gcRet.err = "none"
    /\ gcRet' = getValidServerConfig(gcServerConfigs, gcErrs)
    /\ UNCHANGED <<gcServerConfigs, gcErrs>>
    /\ UNCHANGED <<nsVars, mpVars, vlVars, clVars, bucketDir, lpVars, hfVars, adVars,
                   dsVars, scVars, lcVars, llVars>>

-----------------------------------------------------------------------------
(* peerRPCReceiver.LoadCredentials, run by one caller of the lock map.      *)

\* The goroutine of the handler.
LcHandler == 1

\* (minioMetaBucket, config/config.json.transaction): the handler and the
\* operations on config.json meet on this pair of the lock map.
TransactionParam == "bucket/obj1"

LcIdle ==
    /\ lcPc = "idle"
    /\ lcRet = "none"

LcRest == <<nsVars, mpVars, vlVars, clVars, bucketDir, lpVars, hfVars, adVars, dsVars,
            scVars, gcVars, llVars>>

\* The call arrives: without an object layer it returns
\* errServerNotInitialized, with one it goes on to GetRLock.
LoadCredentials(initialized) ==
    /\ lcPc = "idle"
    /\ IF initialized
       THEN lcPc' = "getrlock" /\ UNCHANGED lcRet
       ELSE lcPc' = "done" /\ lcRet' = "errServerNotInitialized"
    /\ UNCHANGED LcRest

\* objLock.GetRLock(globalOperationTimeout) is called.
LcGetRLock ==
    /\ lcPc = "getrlock"
    /\ nsErr[LcHandler] = "none"
    /\ LockEnter(LcHandler, TransactionParam, TRUE)

\* GetRLock returned an error: the handler returns it.
LcTimedOut ==
    /\ lcPc = "getrlock"
    /\ nsPc[LcHandler] = "idle"
    /\ nsErr[LcHandler] = "OperationTimedOut"
    /\ lcPc' = "done"
    /\ lcRet' = nsErr[LcHandler]
    /\ UNCHANGED LcRest

\* GetRLock returned nil: the next statement is objLock.RUnlock().
LcLocked ==
    /\ lcPc = "getrlock"
    /\ nsPc[LcHandler] = "running"
    /\ lcPc' = "runlock"
    /\ UNCHANGED <<lcRet, LcRest>>

\* objLock.RUnlock() is called.
LcRUnlock ==
    /\ lcPc = "runlock"
    /\ UnlockEnter(LcHandler)

\* RUnlock has returned: globalConfigSys.Load(newObjectLayerFn()) starts.
LcLoad ==
    /\ lcPc = "runlock"
    /\ nsPc[LcHandler] = "idle"
    /\ lcPc' = "load"
    /\ UNCHANGED <<lcRet, LcRest>>

\* Load returns, and the handler with it.
LcReturn ==
    /\ lcPc = "load"
    /\ lcPc' = "done"
    /\ lcRet' = "nil"
    /\ UNCHANGED LcRest

\* The handler, and the other callers taking and releasing the
\* transaction lock for reading and for writing.
LoadCredentialsNext ==
    \/ \E initialized \in BOOLEAN : LoadCredentials(initialized)
    \/ LcGetRLock
    \/ LcTimedOut
    \/ LcLocked
    \/ LcRUnlock
    \/ LcLoad
    \/ LcReturn
    \/ \E c \in Callers :
          \/ c # LcHandler /\ \E rl \in BOOLEAN : LockEnter(c, TransactionParam, rl)
          \/ LockLookup(c)
          \/ LockRef(c)
          \/ LockAcquire(c)
          \/ LockTimeout(c)
          \/ TimeoutEnter(c)
          \/ TimeoutCleanup(c)
          \/ c # LcHandler /\ UnlockEnter(c)
          \/ UnlockBody(c)

-----------------------------------------------------------------------------
(* xlObjects.ListLocks and xlObjects.ClearLocks, run by one goroutine on    *)
(* the lock map the other callers lock and unlock.                          *)

\* The goroutine of the admin request.
Admin == NumCallers

\* The pairs of the lock map in the order the range over debugLockMap
\* happens to take.
ParamOrder == <<"bucket/obj1", "bucket/obj2">>

\* param.volume and param.path
Volume(param) == "bucket"

Path(param) == IF param = "bucket/obj1" THEN "obj1" ELSE "obj2"

\* nsParam{volLock.Bucket, volLock.Object}
ParamOf(bucket, object) == CHOOSE param \in NsParams : Volume(param) = bucket /\ Path(param) = object

\* The prefixes asked for: the empty prefix, and a whole object name.
Prefixes == {"", "obj1"}

\* hasPrefix(s, prefix), for these prefixes.
HasPrefix(path, prefix) == prefix = "" \/ prefix = path

\* debugLock.lockInfo of param: the operations with a debug record, of
\* which those in old have elapsed >= duration.
LockInfoOps(param, old) ==
    {c \in Callers : opStatus[c] # "none" /\ nsParam[c] = param /\ c \in old}

\* The inner loop of ListLocks over the operations of one object: each
\* operation is added to the details of volLockInfo, and volLockInfo is
\* appended to volumeLocks in the same pass.
RECURSIVE LocksOnObject(_, _, _)
LocksOnObject(param, ops, details) ==
    IF ops = {} THEN <<>>
    ELSE LET opsID == CHOOSE c \in ops : \A d \in ops : c <= d
             lockDetailsOnObject ==
                 Append(details, [operationID |-> opsID, status |-> opStatus[opsID]])
         IN  <<[bucket |-> Volume(param), object |-> Path(param),
                lockDetailsOnObject |-> lockDetailsOnObject]>>
             \o LocksOnObject(param, ops \ {opsID}, lockDetailsOnObject)

\* The outer loop: the pairs of another bucket or without the prefix are
\* passed over.
RECURSIVE VolumeLocks(_, _, _, _)
VolumeLocks(i, bucket, prefix, old) ==
    IF i > Len(ParamOrder) THEN <<>>
    ELSE LET param == ParamOrder[i]
         IN  (IF Volume(param) # bucket \/ ~HasPrefix(Path(param), prefix) THEN <<>>
              ELSE LocksOnObject(param, LockInfoOps(param, old), <<>>))
             \o VolumeLocks(i + 1, bucket, prefix, old)

LlIdle ==
    /\ llPc = "idle"
    /\ llLocks = <<>>
    /\ llNext = 1

LlRest == <<mpVars, vlVars, clVars, bucketDir, lpVars, hfVars, adVars, dsVars,
            scVars, gcVars, lcVars>>

\* ListLocks, from the Lock of lockMapMutex to its deferred Unlock.
ListLocks(bucket, prefix, old) ==
    /\ ~panicked
    /\ llPc = "idle"
    /\ lockMapMutex = Free
    /\ llLocks' = VolumeLocks(1, bucket, prefix, old)
    /\ llPc' = "clear"
    /\ UNCHANGED <<llNext, nsVars, LlRest>>

\* One pass of the loop of ClearLocks: ForceUnlock(volLock.Bucket,
\* volLock.Object) takes lockMapMutex.
ClearLocksForceUnlock ==
    /\ ~panicked
    /\ llPc = "clear"
    /\ llNext <= Len(llLocks)
    /\ nsPc[Admin] = "idle"
    /\ lockMapMutex = Free
    /\ lockMapMutex' = Admin
    /\ nsPc' = [nsPc EXCEPT ![Admin] = "fu_body"]
    /\ nsParam' = [nsParam EXCEPT ![Admin] =
                      ParamOf(llLocks[llNext].bucket, llLocks[llNext].object)]
    /\ nsErr' = [nsErr EXCEPT ![Admin] = "none"]
    /\ llNext' = llNext + 1
    /\ UNCHANGED <<lockMap, nsRef, rwState, nsRead, nsLk, opStatus, panicked, forceCalls>>
    /\ UNCHANGED <<llPc, llLocks, LlRest>>

\* The loop is over: ClearLocks returns nil.
ClearLocksReturn ==
    /\ llPc = "clear"
    /\ llNext > Len(llLocks)
    /\ nsPc[Admin] = "idle"
    /\ llPc' = "done"
    /\ UNCHANGED <<llLocks, llNext, nsVars, LlRest>>

\* The admin request beside callers that take and release write locks.
ListLocksNext ==
    \/ \E bucket \in {"bucket", "other"}, prefix \in Prefixes, old \in SUBSET (Callers \ {Admin}) :
          ListLocks(bucket, prefix, old)
    \/ ClearLocksForceUnlock
    \/ ForceUnlockBody(Admin)
    \/ ClearLocksReturn
    \/ \E c \in Callers \ {Admin} :
          \/ \E p \in NsParams : LockEnter(c, p, FALSE)
          \/ LockLookup(c)
          \/ LockRef(c)
          \/ LockAcquire(c)
          \/ LockTimeout(c)
          \/ TimeoutEnter(c)
          \/ TimeoutCleanup(c)
          \/ UnlockEnter(c)
          \/ UnlockBody(c)

RpcIdle == ScIdle /\ GcIdle /\ LcIdle /\ LlIdle

-----------------------------------------------------------------------------
(* Specifications. *)

\* newNSLock: an empty map.
NsInit ==
    /\ lockMap = [p \in NsParams |-> NoLock]
    /\ nsRef = [i \in LockIds |-> 0]
    /\ rwState = [i \in LockIds |-> NOLOCKS]
    /\ lockMapMutex = Free
    /\ nsPc = [c \in Callers |-> "idle"]
    /\ nsParam = [c \in Callers |-> NoParam]
    /\ nsRead = [c \in Callers |-> FALSE]
    /\ nsLk = [c \in Callers |-> NoLock]
    /\ nsErr = [c \in Callers |-> "none"]
    /\ opStatus = [c \in Callers |-> "none"]
    /\ panicked = FALSE
    /\ forceCalls = 0

\* Callers acquire and release their own holds on the pairs of P, with
\* GetRLock (TRUE) or GetLock (FALSE) as K allows.
NsCalls(P, K) ==
    \E c \in Callers :
        \/ \E p \in P, rl \in K : LockEnter(c, p, rl)
        \/ LockLookup(c)
        \/ LockRef(c)
        \/ LockAcquire(c)
        \/ LockTimeout(c)
        \/ TimeoutEnter(c)
        \/ TimeoutCleanup(c)
        \/ UnlockEnter(c)
        \/ UnlockBody(c)

\* Nobody calls ForceUnlock.
NsNext == NsCalls(NsParams, BOOLEAN)

\* The pair an administrator force-unlocks.
ForceParams == {"bucket/obj1"}

\* GetLock, Unlock and ForceUnlock calls on one pair.
NsForceNext ==
    \/ NsCalls(ForceParams, {FALSE})
    \/ \E c \in Callers :
        \/ \E p \in ForceParams : ForceUnlockEnter(c, p)
        \/ ForceUnlockBody(c)

\* The pair on which callers also release what they do not hold.
StrayParams == {"bucket/obj1"}

\* GetLock, GetRLock, Unlock and RUnlock on one pair, with and without a
\* hold of the caller.
NsStrayNext ==
    \/ NsCalls(StrayParams, BOOLEAN)
    \/ \E c \in Callers, p \in StrayParams, rl \in BOOLEAN : StrayUnlockEnter(c, p, rl)

\* initFSObjects: no upload, no record; the object does not exist yet.
MpInit ==
    /\ uploads = [u \in Uploads |-> "unused"]
    /\ partFiles = [u \in Uploads |-> {}]
    /\ dirOld = [u \in Uploads |-> FALSE]
    /\ appendFileMap = [u \in Uploads |-> NoRec]
    /\ recParts = [r \in RecIds |-> <<>>]
    /\ recData = [r \in RecIds |-> <<>>]
    /\ recMu = [r \in RecIds |-> Free]
    /\ objData = <<>>
    /\ objEtag = <<>>
    /\ objLock = Free
    /\ mpPc = [p \in Procs |-> "idle"]
    /\ mpUp = [p \in Procs |-> NoUpload]
    /\ mpPart = [t \in Threads |-> NoPart]
    /\ mpParts = [t \in Threads |-> <<>>]
    /\ mpFile = [p \in Procs |-> NoRec]
    /\ mpFallback = [t \in Threads |-> TRUE]
    /\ mpTmpData = [t \in Threads |-> <<>>]
    /\ mpRet = NoRet
    /\ mpCalls = 0

\* Two uploads for the one object, each with its part 1 uploaded and
\* appended by backgroundAppend; no request is in progress.
MpPairInit ==
    /\ uploads = [u \in Uploads |-> "active"]
    /\ partFiles = [u \in Uploads |-> IF u = UploadIds[1] THEN {<<1, "a">>} ELSE {<<1, "b">>}]
    /\ dirOld = [u \in Uploads |-> FALSE]
    /\ appendFileMap = [u \in Uploads |-> IF u = UploadIds[1] THEN 1 ELSE 2]
    /\ recParts = [r \in RecIds |-> IF r = 1 THEN <<<<1, "a">>>>
                                   ELSE IF r = 2 THEN <<<<1, "b">>>> ELSE <<>>]
    /\ recData = [r \in RecIds |-> IF r = 1 THEN <<"a">> ELSE IF r = 2 THEN <<"b">> ELSE <<>>]
    /\ recMu = [r \in RecIds |-> Free]
    /\ objData = <<>>
    /\ objEtag = <<>>
    /\ objLock = Free
    /\ mpPc = [p \in Procs |-> "idle"]
    /\ mpUp = [p \in Procs |-> NoUpload]
    /\ mpPart = [t \in Threads |-> NoPart]
    /\ mpParts = [t \in Threads |-> <<>>]
    /\ mpFile = [p \in Procs |-> NoRec]
    /\ mpFallback = [t \in Threads |-> TRUE]
    /\ mpTmpData = [t \in Threads |-> <<>>]
    /\ mpRet = NoRet
    /\ mpCalls = 0

\* CompleteMultipartUpload requests on a disk that may fail as F says.
MpCompletes(F) ==
    \E t \in Threads :
        \/ \E u \in Uploads, parts \in PartLists : CompleteStart(t, u, parts)
        \/ CompleteTake(t)
        \/ CompleteVerify(t)
        \/ CompleteGetLock(t)
        \/ CompleteGetLockTimeout(t)
        \/ \E failure \in F \cap {"none", "meta"} : CompleteWriteMeta(t, failure)
        \/ \E failure \in F \ {"meta"} : CompleteCommit(t, failure)

\* The backgroundAppend goroutines, and backgroundAppend as called by
\* CompleteMultipartUpload.
MpAppends ==
    \E p \in Procs :
        \/ BackgroundAppendMap(p)
        \/ BackgroundAppendFile(p)

\* NewMultipartUpload, PutObjectPart and AbortMultipartUpload requests.
MpUploadCalls ==
    \E t \in Threads :
        \/ NewMultipartUpload(t)
        \/ \E u \in Uploads, part \in Parts : PutObjectPartStart(t, u, part[1], part[2])
        \/ PutObjectPartRename(t)
        \/ \E u \in Uploads : AbortStart(t, u)
        \/ AbortStat(t)
        \/ AbortRemoveAll(t)

\* Requests of the multipart API on the one object, and the goroutines.
MpNext ==
    \/ MpUploadCalls
    \/ \E t \in Threads, u \in Uploads : ListObjectParts(t, u)
    \/ MpCompletes(Failures)
    \/ MpAppends

\* The cleaner, and the time that makes uploads stale.
CleanerNext ==
    \/ \E u \in Uploads : TimePasses(u)
    \/ CleanerWake
    \/ \E u \in Uploads : CleanerDir(u)
    \/ CleanerSleep

\* MakeBucket has made the bucket.
BucketInit == bucketDir = TRUE

\* A single-node lock map: no dsync call is ever made.
DsInit ==
    /\ isDistXL = FALSE
    /\ netCall = [c \in Callers |-> "none"]

SvcIdle == AdInit /\ DsInit /\ RpcIdle

AuxIdle == LpIdle /\ HfIdle /\ SvcIdle

ExtInit == VlIdle /\ ClInit /\ BucketInit /\ AuxIdle

Init == NsInit /\ MpInit /\ ExtInit

\* newNSLock(true): the lock map of a distributed setup.
DsDist ==
    /\ isDistXL = TRUE
    /\ netCall = [c \in Callers |-> "none"]

InitNsDist ==
    NsInit /\ MpInit /\ VlIdle /\ ClInit /\ BucketInit /\ LpIdle /\ HfIdle /\ AdInit /\ DsDist /\ RpcIdle

\* The calls of NsForceNext, and GetRLock / RUnlock, on the lock map of a
\* distributed setup.
NsDistNext ==
    \/ NsCalls(ForceParams, BOOLEAN)
    \/ \E c \in Callers :
        \/ \E p \in ForceParams : ForceUnlockEnter(c, p)
        \/ DsyncForceUnlock(c)
        \/ ForceUnlockBody(c)
        \/ DsyncUnlock(c)

SpecNs == Init /\ [][NsNext]_vars

SpecNsForce == Init /\ [][NsForceNext]_vars

SpecNsStray == Init /\ [][NsStrayNext]_vars

SpecNsDist == InitNsDist /\ [][NsDistNext]_vars

SpecMp == Init /\ [][MpNext]_vars

\* The final fsStatFile of the object does not fail: an upload-id directory
\* is removed by a CompleteMultipartUpload that succeeds, and by nothing else.
PairFailures == Failures \ {"stat"}

InitMpPair == NsInit /\ MpPairInit /\ ExtInit

SpecMpPair == InitMpPair /\ [][MpCompletes(PairFailures) \/ MpAppends]_vars

SpecMpClean == Init /\ [][MpUploadCalls \/ MpAppends \/ CleanerNext]_vars

\* NewMultipartUpload and AbortMultipartUpload requests beside the cleaner,
\* signals on the done channel and new starts of the goroutine.
CleanerDoneNext ==
    \/ \E t \in Threads :
        \/ NewMultipartUpload(t)
        \/ \E u \in Uploads : AbortStart(t, u)
        \/ AbortStat(t)
        \/ AbortRemoveAll(t)
    \/ CleanerNext
    \/ CleanerDone
    \/ CleanerStart

SpecCleanerDone == Init /\ [][CleanerDoneNext]_vars

InitValidate == NsInit /\ MpInit /\ VlInit /\ ClInit /\ BucketInit /\ AuxIdle

SpecValidate == InitValidate /\ [][Validate]_vars

Spec == SpecNs

-----------------------------------------------------------------------------
(* Properties of the namespace lock map. *)

\* Caller c holds the lock it acquired: from the successful return of
\* GetLock / GetRLock until the body of its Unlock / RUnlock has run.
Holds(c) == nsPc[c] \in {"running", "ul_body"}

WriteHolders(p) == {c \in Callers : Holds(c) /\ nsParam[c] = p /\ ~nsRead[c]}

ReadHolders(p) == {c \in Callers : Holds(c) /\ nsParam[c] = p /\ nsRead[c]}

\* Callers that went through "nsLk.ref++" for p and have neither released
\* nor run the timeout path's "nsLk.ref--".
Referrers(p) ==
    {c \in Callers : nsParam[c] = p /\ nsPc[c] \in {"blocked", "to_wait", "running"}}

\* Caller c's GetLock / GetRLock returns OperationTimedOut in this step.
TimedOutStep(c) == nsPc[c] = "to_cleanup" /\ nsPc'[c] = "idle"

\* The RW primitive gives up on caller c in this step.
GiveUpStep(c) == nsPc[c] = "blocked" /\ nsPc'[c] = "to_wait"

\* C1: for every (volume, path), in every interleaving of GetLock, GetRLock,
\* Unlock and RUnlock in which callers release only what they acquired, at
\* most one caller holds the write lock, and while a write lock is held no
\* caller holds a read lock on the same (volume, path).
C1_MutualExclusion ==
    \A p \in NsParams :
        /\ Cardinality(WriteHolders(p)) <= 1
        /\ WriteHolders(p) # {} => ReadHolders(p) = {}

\* A writer holds a pair on which a second writer and a reader are waiting.
C1_Witness ==
    \E a, b, c \in Callers :
        /\ Holds(a) /\ ~nsRead[a]
        /\ nsPc[b] = "blocked" /\ ~nsRead[b] /\ nsParam[b] = nsParam[a]
        /\ nsPc[c] = "blocked" /\ nsRead[c] /\ nsParam[c] = nsParam[a]

\* C2: a GetRLock on a (volume, path) that no writer holds never waits out
\* its timeout: the RW primitive gives up on a read request only while some
\* caller holds the write lock, and grants it next to any number of readers.
C2_ReadersShare ==
    [][\A c \in Callers :
          (GiveUpStep(c) /\ nsRead[c]) => WriteHolders(nsParam[c]) # {}]_vars

\* Every caller holds a read lock on the same pair at once.
C2_Witness ==
    \E p \in NsParams : ReadHolders(p) = Callers /\ \A c \in Callers : nsPc[c] = "running"

\* C3: a GetLock that times out while another caller holds the write lock
\* returns OperationTimedOut and leaves that hold, the map entry and the RW
\* primitive as they were; and a GetLock gives up only while some other caller
\* holds the pair, so after the holder's Unlock a later GetLock is granted.
C3_TimeoutKeepsHold ==
    [][\A b \in Callers :
          /\ (TimedOutStep(b) /\ ~nsRead[b]) =>
                /\ nsErr'[b] = "OperationTimedOut"
                /\ \A a \in Callers \ {b} : Holds(a) => (nsPc'[a] = nsPc[a] /\ nsParam'[a] = nsParam[a])
                /\ WriteHolders(nsParam[b]) # {} =>
                      /\ lockMap'[nsParam[b]] = lockMap[nsParam[b]]
                      /\ lockMap[nsParam[b]] # NoLock
                      /\ rwState'[lockMap[nsParam[b]]] = WRITELOCK
          /\ (GiveUpStep(b) /\ ~nsRead[b]) =>
                \E a \in Callers \ {b} : Holds(a) /\ nsParam[a] = nsParam[b]]_vars

\* B's GetLock has returned OperationTimedOut and a writer holds the pair.
C3_Witness ==
    \E a, b \in Callers :
        /\ nsPc[b] = "idle" /\ nsErr[b] = "OperationTimedOut" /\ ~nsRead[b]
        /\ nsPc[a] = "running" /\ ~nsRead[a] /\ nsParam[a] = nsParam[b]

\* C6: without ForceUnlock, whenever the map mutex is free, the map holds an
\* entry for (volume, path) exactly when some caller is blocked on or holds its
\* lock, and then the entry's reference counter is the number of those callers
\* (at least 1).
C6_RefCount ==
    lockMapMutex = Free =>
        \A p \in NsParams :
            IF lockMap[p] = NoLock
              THEN Referrers(p) = {}
              ELSE /\ nsRef[lockMap[p]] = Cardinality(Referrers(p))
                   /\ nsRef[lockMap[p]] >= 1

\* The mutex is free and an entry counts a holder, a blocked caller and one
\* that timed out and has not yet decremented.
C6_Witness ==
    /\ lockMapMutex = Free
    /\ \E p \in NsParams :
          /\ lockMap[p] # NoLock
          /\ nsRef[lockMap[p]] = 3
          /\ \E a, b, c \in Callers :
                /\ nsPc[a] = "running" /\ nsPc[b] = "blocked" /\ nsPc[c] = "to_wait"
                /\ {a, b, c} \subseteq Referrers(p)

\* An nsLock object that callers still point at but the map no longer holds.
Orphan(i) == i # NoLock /\ i \in LiveLocks /\ \A p \in NsParams : lockMap[p] # i

StrayUnlock(c) == nsPc[c] = "ul_body" /\ nsErr[c] # "nil"

\* C11: an Unlock or RUnlock on a (volume, path) without a prior successful
\* acquire returns normally, and no reference counter ever wraps around
\* below zero.
C11_StrayUnlockTolerated ==
    [][/\ \A c \in Callers :
            (StrayUnlock(c) /\ nsPc'[c] # "ul_body") => (nsPc'[c] = "idle" /\ ~panicked')
       /\ \A i \in LockIds : nsRef'[i] <= NumCallers]_vars

-----------------------------------------------------------------------------
(* Properties of the multipart coordinator. *)

\* Thread t returns from CompleteMultipartUpload in this step, after the
\* validation of the parts.
CompleteReturns(t) ==
    /\ mpPc[t] \in {"ba_map", "ba_file", "c_take", "c_verify", "c_lock", "c_commit",
                  "c_rename"}
    /\ mpPc'[t] = "idle"

\* A request is made in this step.
RequestStarts == mpCalls' = mpCalls + 1

\* C4: whenever CompleteMultipartUpload succeeds on a parts list L, the
\* object is the concatenation, in the order of L, of exactly the part files
\* L names, all present in the upload-id directory as long as the directory
\* is there, and the stored etag is the composite etag over L; whatever the
\* order of the uploads, the re-uploads and the runs of backgroundAppend
\* were.
C4_CompleteConcatenates ==
    [][\A t \in Threads :
         (CompleteReturns(t) /\ mpRet'.err = "nil")
           => /\ objData' = PartsData(mpParts[t])
              /\ objEtag' = GetCompleteMultipartMD5(mpParts[t])
              /\ mpRet'.etag = GetCompleteMultipartMD5(mpParts[t])
              /\ UploadExists(uploads, mpUp[t]) =>
                     \A i \in 1..Len(mpParts[t]) : mpParts[t][i] \in partFiles[mpUp[t]]]_vars

\* A two-part upload is completed.
C4_Witness ==
    /\ mpRet.op = "complete"
    /\ mpRet.err = "nil"
    /\ objData = <<"a", "b">>

\* C5: in every append record the i-th part has part number i, and a
\* record only grows by parts whose part file <number, etag> is in the
\* upload-id directory when backgroundAppend appends them: the record may
\* lag behind the directory and never leads it.
C5_AppendRecord ==
    [][\A r \in RecIds :
         /\ \A i \in 1..Len(recParts'[r]) : recParts'[r][i][1] = i
         /\ (recParts'[r] # recParts[r] /\ recParts'[r] # <<>>)
              => /\ Len(recParts'[r]) > Len(recParts[r])
                 /\ SubSeq(recParts'[r], 1, Len(recParts[r])) = recParts[r]
                 /\ \E p \in Procs :
                      /\ mpPc[p] = "ba_file"
                      /\ mpFile[p] = r
                      /\ \A i \in (Len(recParts[r]) + 1)..Len(recParts'[r]) :
                           recParts'[r][i] \in partFiles[mpUp[p]]]_vars

\* A record holds parts 1 and 2 while part 1 was uploaded twice.
C5_Witness ==
    \E r \in RecIds, u \in Uploads :
        /\ Len(recParts[r]) = 2
        /\ {<<1, "a">>, <<1, "b">>} \subseteq partFiles[u]

\* The errors of the steps of CompleteMultipartUpload up to the rename:
\* an invalid part, the size checks, a failed append, the lock timeout,
\* the metadata write and the rename.
CompleteStepErrors ==
    {"InvalidPart", "PartTooSmall", "PartsSizeUnequal", "ObjectNotFound",
     "OperationTimedOut", "MetaError", "RenameError"}

SecondAbortReturns(t) ==
    /\ mpPc[t] \in {"a_stat", "a_remove"}
    /\ mpPc'[t] = "idle"
    /\ uploads[mpUp[t]] = "removed"
    /\ objData = <<>>

\* Thread t, in such an AbortMultipartUpload, makes its upload-id check.
SecondAbortChecks(t) ==
    /\ mpPc[t] = "a_stat"
    /\ mpPc'[t] # "a_stat"
    /\ uploads[mpUp[t]] = "removed"
    /\ objData = <<>>

\* AbortMultipartUpload on an existing upload-id removes the directory.
AbortRemoves ==
    \A t \in Threads :
        (mpPc[t] = "a_remove" /\ mpPc'[t] = "idle")
          => /\ uploads'[mpUp[t]] = "removed"
             /\ partFiles'[mpUp[t]] = {}
             /\ mpRet' = Ret("abort", mpUp[t], "nil")

ObjectOfOneUpload ==
    \E parts \in PartLists :
        objData = PartsData(parts) /\ objEtag = GetCompleteMultipartMD5(parts)

\* Thread t has written the metadata and has not renamed its data yet.
BetweenMetaAndRename(t) == mpPc[t] = "c_rename"

\* C12: when CompleteMultipartUpload calls with different upload-ids for
\* the same object run concurrently, nothing writes the object's data or
\* metadata between the metadata write and the rename of one call, and once
\* every upload is completed the object's data and the etag in its fs.json
\* come from the same upload, the one completed last.
C12_CompletesOrdered ==
    [][/\ \A t \in Threads :
            (BetweenMetaAndRename(t) /\ mpPc'[t] = mpPc[t]) => UNCHANGED <<objData, objEtag>>
       /\ \A t, s \in Threads :
            (BetweenMetaAndRename(t) /\ s # t) => mpPc[s] \notin {"c_commit", "c_rename"}
       /\ (\A u \in Uploads : uploads'[u] = "removed")
            => /\ ObjectOfOneUpload'
               /\ mpRet'.err = "nil" => objEtag' = mpRet'.etag]_vars

\* Both uploads are completed by two calls, the upload of "a" last.
C12_Witness ==
    /\ \A u \in Uploads : uploads[u] = "removed"
    /\ mpCalls = 2
    /\ mpRet.op = "complete"
    /\ mpRet.err = "nil"
    /\ objData = <<"a">>

\* Some pair of the parts list has no part file of that number and etag.
HasMissingPart(parts, files) == \E i \in 1..Len(parts) : parts[i] \notin files

\* The index of the first such pair.
FirstMissingPart(parts, files) ==
    CHOOSE i \in 1..Len(parts) :
        /\ parts[i] \notin files
        /\ \A j \in 1..(i - 1) : parts[j] \in files

\* A part before index k is below the minimum size or differs in size
\* from the first part.
SizeCheckFailsBefore(parts, k) ==
    \E j \in 1..(k - 1) :
        \/ PartSize(parts[j][2]) < MinPartSize
        \/ PartSize(parts[j][2]) # PartSize(parts[1][2])

\* CompleteMultipartUpload on an existing upload-id returns from its
\* validation in this step, with a parts list that names a missing pair.
TurnedDownWithMissingPart ==
    /\ RequestStarts
    /\ mpRet'.op = "complete"
    /\ UploadExists(uploads, mpRet'.uploadID)
    /\ HasMissingPart(mpRet'.parts, partFiles[mpRet'.uploadID])

\* No CompleteMultipartUpload passes its validation with a parts list that
\* names a missing pair.
MissingPartNeverPasses ==
    \A t \in Threads :
        (mpPc[t] = "idle" /\ mpPc'[t] = "ba_map")
          => ~HasMissingPart(mpParts'[t], partFiles[mpUp'[t]])

\* C13 as stated: CompleteMultipartUpload returns InvalidPart and changes
\* neither the object nor the upload-id directory whenever some claimed
\* (part-number, etag) pair, the last one included, has no part file with
\* that number and etag in the upload-id directory.
C13_MissingPartIsInvalidPart ==
    [][/\ MissingPartNeverPasses
       /\ TurnedDownWithMissingPart
            => /\ mpRet'.err = "InvalidPart"
               /\ UNCHANGED <<fsVars, objVars>>]_vars

\* C13 as amended: in that case CompleteMultipartUpload on an existing
\* upload-id returns an error and changes neither the object nor the
\* upload-id directory; the error is InvalidPart unless a claimed part
\* before the first missing one fails a size check, and then it is
\* PartTooSmall or PartsSizeUnequal.
C13_MissingPartIsRejected ==
    [][/\ MissingPartNeverPasses
       /\ TurnedDownWithMissingPart
            => /\ UNCHANGED <<fsVars, objVars>>
               /\ LET parts == mpRet'.parts
                      k == FirstMissingPart(parts, partFiles[mpRet'.uploadID])
                  IN  IF SizeCheckFailsBefore(parts, k)
                      THEN mpRet'.err \in {"PartTooSmall", "PartsSizeUnequal"}
                      ELSE mpRet'.err = "InvalidPart"]_vars

\* A parts list whose first part is there and whose last part is missing
\* was turned down with InvalidPart.
C13_Witness ==
    /\ mpRet.op = "complete"
    /\ mpRet.err = "InvalidPart"
    /\ mpRet.parts = <<<<1, "a">>, <<2, "b">>>>
    /\ <<1, "a">> \in partFiles[mpRet.uploadID]

\* Part j of the list is below the minimum size or differs in size from
\* the first part of the list.
Offends(parts, j) ==
    \/ PartSize(parts[j][2]) < MinPartSize
    \/ PartSize(parts[j][2]) # PartSize(parts[1][2])

\* The parts other than the last that offend.
Offenders(parts) == {j \in 1..(Len(parts) - 1) : Offends(parts, j)}

\* C14: the validation rejects the request when any claimed part other
\* than the last is below the minimum part size or differs in size from the
\* first claimed part; with every part file there, the error is PartTooSmall
\* or PartsSizeUnequal as the first such part is too small or not, and the
\* list passes when there is no such part: the last part is exempt, and a
\* single part of any size passes.
C14_SizeChecks ==
    vlResult # "-" =>
        /\ Offenders(vlParts) # {} => vlResult # "ok"
        /\ (\A i \in 1..Len(vlParts) : vlParts[i] \in vlFiles) =>
              IF Offenders(vlParts) = {} THEN vlResult = "ok"
              ELSE LET j == CHOOSE x \in Offenders(vlParts) :
                                \A y \in Offenders(vlParts) : x <= y
                   IN  IF PartSize(vlParts[j][2]) < MinPartSize
                       THEN vlResult = "PartTooSmall"
                       ELSE vlResult = "PartsSizeUnequal"
        /\ (Len(vlParts) = 1 /\ vlParts[1] \in vlFiles) => vlResult = "ok"

\* Parts of the minimum size, twice the minimum size and one byte: the
\* second is turned down for its size, the one-byte last part is not looked
\* at.
C14_Witness ==
    /\ vlResult = "PartsSizeUnequal"
    /\ vlParts = <<<<1, "a">>, <<2, "c">>, <<3, "b">>>>

\* A temporary part file exists while its PutObjectPart is between
\* fsCreateFile and the rename.
TmpPartFiles == {t \in Threads : mpPc[t] = "p_rename"}

\* The backgroundAppend goroutines scheduled or running.
ScheduledAppends == {g \in Appenders : mpPc[g] # "idle"}

\* C15: a PutObjectPart on an upload-id whose directory or fs.json does
\* not exist returns InvalidUploadID at once: it writes no temporary file,
\* creates no part file and schedules no background append.
C15_PutOnMissingUpload ==
    [][\A u \in Uploads :
         ~UploadExists(uploads, u) =>
            /\ \A t \in Threads :
                  (RequestStarts /\ mpPc[t] = "idle" /\ mpUp'[t] = u) => mpPc'[t] # "p_rename"
            /\ (RequestStarts /\ mpRet'.op = "put" /\ mpRet'.uploadID = u)
                  => /\ mpRet'.err = "InvalidUploadID"
                     /\ partFiles' = partFiles
                     /\ TmpPartFiles' = TmpPartFiles
                     /\ ScheduledAppends' = ScheduledAppends
                     /\ UNCHANGED <<uploads, recVars, objVars>>]_vars

\* A PutObjectPart on an aborted upload was turned down while the other
\* upload is there.
C15_Witness ==
    /\ mpRet.op = "put"
    /\ mpRet.err = "InvalidUploadID"
    /\ uploads[mpRet.uploadID] = "removed"
    /\ \E u \in Uploads : uploads[u] = "active"

\* The cleaner looks at upload-id directory u of its listing in this step.
CleanerLooksAt(u) == clPc = "scan" /\ u \in clTodo /\ u \notin clTodo'

ListMultipartUploads(t) ==
    /\ mpPc[t] = "idle"
    /\ mpCalls < MaxRequests
    /\ IF ~StatBucketDir
       THEN BucketNotFound("listuploads", NoUpload)
       ELSE /\ mpRet' = Ret("listuploads", NoUpload, "nil")
            /\ UNCHANGED <<fsVars, recVars, objVars, mpPc, mpUp, mpPart, mpParts, mpFile,
                           mpFallback, mpTmpData>>
    /\ mpCalls' = mpCalls + 1
    /\ UNCHANGED <<nsVars, extVars>>

\* The bucket's directory goes away under the server (the tests replace
\* fs.fsPath by a path that does not exist) while requests are still to
\* come; the multipart directory under the meta bucket stays.
RemoveBucketDir ==
    /\ bucketDir
    /\ mpCalls < MaxRequests
    /\ bucketDir' = FALSE
    /\ UNCHANGED <<nsVars, mpVars, vlVars, clVars, auxVars>>

\* One upload with its part 1 uploaded and appended by backgroundAppend:
\* NewMultipartUpload and PutObjectPart have returned.
MpBucketInit ==
    /\ uploads = [u \in Uploads |-> IF u = UploadIds[1] THEN "active" ELSE "unused"]
    /\ partFiles = [u \in Uploads |-> IF u = UploadIds[1] THEN {<<1, "a">>} ELSE {}]
    /\ dirOld = [u \in Uploads |-> FALSE]
    /\ appendFileMap = [u \in Uploads |-> IF u = UploadIds[1] THEN 1 ELSE NoRec]
    /\ recParts = [r \in RecIds |-> IF r = 1 THEN <<<<1, "a">>>> ELSE <<>>]
    /\ recData = [r \in RecIds |-> IF r = 1 THEN <<"a">> ELSE <<>>]
    /\ recMu = [r \in RecIds |-> Free]
    /\ objData = <<>>
    /\ objEtag = <<>>
    /\ objLock = Free
    /\ mpPc = [p \in Procs |-> "idle"]
    /\ mpUp = [p \in Procs |-> NoUpload]
    /\ mpPart = [t \in Threads |-> NoPart]
    /\ mpParts = [t \in Threads |-> <<>>]
    /\ mpFile = [p \in Procs |-> NoRec]
    /\ mpFallback = [t \in Threads |-> TRUE]
    /\ mpTmpData = [t \in Threads |-> <<>>]
    /\ mpRet = NoRet
    /\ mpCalls = 2

InitMpBucket == NsInit /\ MpBucketInit /\ ExtInit

\* The requests of the multipart API, and the loss of the bucket's
\* directory.
MpBucketNext ==
    \/ MpNext
    \/ \E t \in Threads : ListMultipartUploads(t)
    \/ RemoveBucketDir

SpecMpBucket == InitMpBucket /\ [][MpBucketNext]_vars

\* A request of the multipart API is called.
RequestCalled == mpCalls' = mpCalls + 1

\* C17: a multipart operation (NewMultipartUpload, PutObjectPart,
\* ListObjectParts, ListMultipartUploads, CompleteMultipartUpload,
\* AbortMultipartUpload) called while the bucket's directory does not
\* exist returns BucketNotFound, and changes nothing: no directory, part
\* file, temporary file, object, append record or goroutine appears or
\* disappears.
C17_NoBucketNoEffect ==
    [][(RequestCalled /\ ~bucketDir) =>
           /\ mpRet'.err = "BucketNotFound"
           /\ mpRet'.op \in {"new", "put", "list", "listuploads", "complete", "abort"}
           /\ UNCHANGED <<fsVars, recVars, objVars, mpPc, mpUp, mpPart, mpTmpData>>]_vars

\* A CompleteMultipartUpload of an upload that has its part is turned
\* down with BucketNotFound, the upload left as it was.
C17_Witness ==
    /\ ~bucketDir
    /\ mpRet.op = "complete"
    /\ mpRet.err = "BucketNotFound"
    /\ mpRet.uploadID = "id1"
    /\ mpRet.parts = <<<<1, "a">>>>
    /\ uploads["id1"] = "active"
    /\ partFiles["id1"] = {<<1, "a">>}


\* ---- the listing of the parts ----------------------------------------

InitListParts == NsInit /\ MpInit /\ VlIdle /\ ClInit /\ BucketInit /\ LpInit /\ HfIdle /\ SvcIdle

SpecListParts == InitListParts /\ [][ListParts]_vars

\* The indexes of the files of one part number in the directory.
FilesOfPart(partNumber) == {i \in 1..Len(lpEntries) : lpEntries[i][1] = partNumber}

\* C18: the parts ListObjectParts returns are in strictly ascending order
\* of part number, so each part number is listed at most once, and the
\* etag listed for a part number is that of a file of this part number
\* in the directory than which no file of the part number is newer.
C18_ListedAscendingLatest ==
    lpResult.err = "nil" =>
        /\ \A i \in 1..(Len(lpResult.parts) - 1) :
               lpResult.parts[i][1] < lpResult.parts[i + 1][1]
        /\ \A i \in 1..Len(lpResult.parts) :
               \E f \in FilesOfPart(lpResult.parts[i][1]) :
                   /\ lpEntries[f] = lpResult.parts[i]
                   /\ \A g \in FilesOfPart(lpResult.parts[i][1]) :
                          lpModTime[g] <= lpModTime[f]

\* Part 2 is read first, and of the two files of part 1 the newer one is
\* read last: the listing has part 1 with the newer etag, then part 2.
C18_Witness ==
    /\ lpEntries = <<<<2, "a">>, <<1, "a">>, <<1, "b">>>>
    /\ lpModTime = <<1, 1, 2>>
    /\ lpMarker = 0
    /\ lpResult.err = "nil"
    /\ lpResult.parts = <<<<1, "b">>, <<2, "a">>>>


\* ---- the healing of a file -------------------------------------------

InitHeal == NsInit /\ MpInit /\ VlIdle /\ ClInit /\ BucketInit /\ LpIdle /\ HfInit /\ SvcIdle

SpecHeal == InitHeal /\ [][HealNext]_vars

\* The blocks of the file, in order.
AllBlocks == [b \in 1..hfNumBlocks |-> b - 1]

\* C19: AppendFile is called only on disks that are stale and have had no
\* write error before; and when HealFile returns nil, Checksums[i] is
\* non-nil exactly for the stale disks i whose destination file got every
\* block, and nil for every other disk.
C19_AppendsAndChecksums ==
    [][/\ \A i \in Disks :
              hfTried'[i] # hfTried[i] => i \in StaleDisks /\ ~hfWriteErrors[i]
       /\ hfRet' = "nil" =>
              \A i \in Disks :
                  hfChecksums'[i] # NilSum <=>
                      (i \in StaleDisks /\ hfTried'[i] = hfNumBlocks
                       /\ hfDst'[i] = AllBlocks)]_vars

\* A heal of two blocks onto two stale disks, of which one fails at the
\* second block: success, with a checksum for the other disk alone.
C19_Witness ==
    /\ hfRet = "nil"
    /\ hfNumBlocks = 2
    /\ \A i \in Disks : hfDisk[i] = IF i <= 2 THEN "stale" ELSE "valid"
    /\ hfWriteErrors[1] /\ ~hfWriteErrors[2]
    /\ hfDst[1] = <<0>>
    /\ hfChecksums[1] = NilSum
    /\ hfChecksums[2] = Sum(<<0, 1>>)
    /\ hfChecksums[3] = NilSum


\* A pass of the loop over the blocks is made.
BlockPass == hfPc = "loop" /\ hfTried' # hfTried

\* C20: in every pass AppendFile is called on each stale disk without an
\* earlier write error, whatever the other disks answer; a pass in
\* which no disk accepts the block ends the call with an error; and for
\* a file of at least one block with DataBlocks valid disks the call
\* returns nil exactly when some stale disk has accepted every block.
C20_HealTolerates ==
    [][/\ BlockPass =>
              \A i \in StaleDisks : ~hfWriteErrors[i] => hfTried'[i] = hfTried[i] + 1
       /\ (hfPc = "loop" /\ hfDst' = hfDst) =>
              hfPc' = "done" /\ hfRet' \notin {"none", "nil"}
       /\ (hfPc' = "done" /\ hfNumBlocks >= 1 /\ Cardinality(ValidDisks) >= DataBlocks) =>
              (hfRet' = "nil" <=> \E i \in StaleDisks : hfDst'[i] = AllBlocks)]_vars

\* Disk 1 fails at the first block, which disk 2 accepts; disk 2 fails at
\* the second block, and the call returns the write errors.
C20_Witness ==
    /\ hfPc = "done"
    /\ hfRet = "all stale disks had write errors"
    /\ hfNumBlocks = 2
    /\ \A i \in Disks : hfDisk[i] = IF i <= 2 THEN "stale" ELSE "valid"
    /\ hfTried[1] = 1 /\ hfTried[2] = 2
    /\ hfDst[1] = <<>> /\ hfDst[2] = <<0>>


\* C21: when HealFile returns nil (which takes DataBlocks valid disks,
\* so at most NumDisks - DataBlocks stale ones), the destination file of
\* every healed disk has got every block in order, and its bytes are those
\* of the part file of this disk's own index: chunk after chunk, the
\* rebuilt chunk of the disk's index.
C21_HealedShardIsOwn ==
    hfRet = "nil" =>
        \A i \in Disks :
            hfChecksums[i] # NilSum =>
                /\ hfDst[i] = AllBlocks
                /\ hfData[i] = Shard(i, ReadLen(hfSize))

\* A file of a block and a half: disk 1 is healed with a full chunk and a
\* shorter last chunk.
C21_Witness ==
    /\ hfRet = "nil"
    /\ hfSize = BlockSize + 1
    /\ hfDisk[1] = "stale"
    /\ hfChecksums[1] # NilSum
    /\ Len(hfData[1]) = ChunkSize + 1
    /\ hfData[1] = Shard(1, ChunkSize + 1)


\* ---- the RPC handlers -------------------------------------------------

SpecAdmin == Init /\ [][AdminNext]_vars

SignalHandlers == {"Admin.SignalService", "Peer.SignalService", "local.SignalService"}

AdminHandlers ==
    ObjectLayerHandlers \cup
        {"Admin.SignalService", "Admin.GetConfig", "Admin.WriteTmpConfig", "Admin.CommitConfig"}

\* C22: only restart and stop are ever placed on the service signal
\* channel: an authenticated SignalService request (admin RPC server, peer
\* RPC server or local admin client) with any other signal returns
\* errUnsupportedSignal and sends nothing.
C22_OnlyRestartAndStop ==
    [][/\ \A i \in 1..Len(adSent') : adSent'[i] \in {"restart", "stop"}
       /\ (adCalls' # adCalls /\ adRet'.handler \in SignalHandlers /\ adRet'.valid
           /\ adRet'.sig \notin {"restart", "stop"}) =>
              (adRet'.err = "errUnsupportedSignal" /\ adSent' = adSent)]_vars

\* C23: an admin RPC handler called with a version or a token that is not
\* valid returns an error and has no effect: no signal is sent, no file
\* written or renamed, no call made on the object layer.
C23_AdminNeedsAuth ==
    [][(adCalls' # adCalls /\ adRet'.handler \in AdminHandlers /\ ~adRet'.valid) =>
           /\ adRet'.err \notin {"nil", "none"}
           /\ UNCHANGED <<adSent, adTmpFiles, adConfig, adObjCalls>>]_vars


\* ---- the debug status of the lock operations --------------------------

\* C24: the debug status of a caller's operation changes only from none
\* to blocked (in nsLockMap.lock, before the wait), from blocked to
\* running (the acquire succeeded), from running to none (in the unlock)
\* and from blocked to none (in the cleanup after a timeout); it never
\* goes from running back to blocked.
C24_StatusMoves ==
    [][\A c \in Callers :
         opStatus'[c] # opStatus[c] =>
            \/ opStatus[c] = "none" /\ opStatus'[c] = "blocked" /\ nsPc[c] = "lk_ref"
            \/ opStatus[c] = "blocked" /\ opStatus'[c] = "running" /\ nsPc'[c] = "running"
            \/ opStatus[c] = "running" /\ opStatus'[c] = "none" /\ nsPc[c] = "ul_body"
            \/ opStatus[c] = "blocked" /\ opStatus'[c] = "none" /\ nsPc[c] = "to_cleanup"]_vars

\* One caller runs its lock and is about to release it, a second is
\* blocked on the same lock, and a third has timed out and is back at none.
C24_Witness ==
    \E a, b, c \in Callers :
        /\ nsPc[a] = "ul_body" /\ opStatus[a] = "running"
        /\ nsPc[b] = "blocked" /\ opStatus[b] = "blocked" /\ nsParam[b] = nsParam[a]
        /\ nsPc[c] = "idle" /\ nsErr[c] = "OperationTimedOut" /\ opStatus[c] = "none"


\* ---- the map mutex and the waiting callers ----------------------------

\* Caller c waits for an RW lock that is taken.
Waits(c) ==
    /\ nsPc[c] = "blocked"
    /\ ~RWCanLock(rwState[nsLk[c]], AcquireAsRead(nsRead[c]))

\* Caller d is inside a section under the map mutex.
InCritical(d) == nsPc[d] \in {"lk_lookup", "lk_ref", "ul_body", "to_cleanup"}

\* C25: a caller that waits for the lock of one (volume, path) does not
\* hold the map mutex; whatever another caller has to do in a lock or an
\* unlock on a different (volume, path) it can do without a step of the
\* waiting caller: its sections under the map mutex never wait, it enters
\* them as soon as the mutex is free, and it acquires a lock nobody holds.
C25_WaiterBlocksNobody ==
    \A c \in Callers :
        /\ nsPc[c] = "blocked" => lockMapMutex # c
        /\ Waits(c) =>
            /\ lockMapMutex # c
            /\ \A d \in Callers \ {c} :
                  /\ InCritical(d) =>
                        /\ lockMapMutex = d
                        /\ ENABLED (LockLookup(d) \/ LockRef(d) \/ UnlockBody(d)
                                      \/ TimeoutCleanup(d))
                  /\ (lockMapMutex = Free /\ nsPc[d] = "idle") =>
                        \A p \in NsParams \ {nsParam[c]} : ENABLED LockEnter(d, p, FALSE)
                  /\ (lockMapMutex = Free /\ nsPc[d] = "running"
                        /\ nsParam[d] # nsParam[c]) => ENABLED UnlockEnter(d)
                  /\ (nsPc[d] = "blocked" /\ nsParam[d] # nsParam[c]
                        /\ rwState[nsLk[d]] = NOLOCKS) => ENABLED LockAcquire(d)

\* While one caller waits for the write lock of obj1, another is in the
\* unlock of obj2.
C25_Witness ==
    \E c, d \in Callers :
        /\ Waits(c) /\ nsParam[c] = "bucket/obj1" /\ ~nsRead[c]
        /\ nsPc[d] = "ul_body" /\ nsParam[d] = "bucket/obj2"


\* ---- what goes on under the map mutex ----------------------------------

\* C26: whoever holds the map mutex is at a map lookup or mutation: it is
\* not in the blocking acquire of an RW lock and has no distributed unlock
\* or force-unlock message out.
C26_MutexOnlyForMap ==
    \A c \in Callers :
        lockMapMutex = c => /\ nsPc[c] # "blocked"
                            /\ netCall[c] = "none"


\* ---- the backgroundAppend workers --------------------------------------

\* NewMultipartUpload and the PutObjectPart of one part have returned; the
\* goroutine the PutObjectPart started has not run yet.
MpAppendInit ==
    /\ uploads = [u \in Uploads |-> IF u = UploadIds[1] THEN "active" ELSE "unused"]
    /\ \E part \in Parts :
          /\ partFiles = [u \in Uploads |-> IF u = UploadIds[1] THEN {part} ELSE {}]
          /\ mpRet = [Ret("put", UploadIds[1], "nil") EXCEPT !.etag = <<part[2]>>]
    /\ dirOld = [u \in Uploads |-> FALSE]
    /\ appendFileMap = [u \in Uploads |-> NoRec]
    /\ recParts = [r \in RecIds |-> <<>>]
    /\ recData = [r \in RecIds |-> <<>>]
    /\ recMu = [r \in RecIds |-> Free]
    /\ objData = <<>>
    /\ objEtag = <<>>
    /\ objLock = Free
    /\ mpPc = [p \in Procs |-> IF p \in Appenders THEN "ba_map" ELSE "idle"]
    /\ mpUp = [p \in Procs |-> IF p \in Appenders THEN UploadIds[1] ELSE NoUpload]
    /\ mpPart = [t \in Threads |-> NoPart]
    /\ mpParts = [t \in Threads |-> <<>>]
    /\ mpFile = [p \in Procs |-> NoRec]
    /\ mpFallback = [t \in Threads |-> TRUE]
    /\ mpTmpData = [t \in Threads |-> <<>>]
    /\ mpCalls = 2

InitMpAppend == NsInit /\ MpAppendInit /\ ExtInit

\* The upload-id the requests are about.
AppendUploads == {UploadIds[1]}

\* PutObjectPart, CompleteMultipartUpload and AbortMultipartUpload requests
\* on the one upload and a disk that does not fail, with backgroundAppend
\* taken step by step.
MpAppendNext ==
    \/ \E t \in Threads :
        \/ \E u \in AppendUploads, part \in Parts :
              PutObjectPartStart(t, u, part[1], part[2])
        \/ PutObjectPartRename(t)
        \/ \E u \in AppendUploads : AbortStart(t, u)
        \/ AbortStat(t)
        \/ AbortRemoveAll(t)
        \/ \E u \in AppendUploads, parts \in PartLists : CompleteStart(t, u, parts)
        \/ CompleteTake(t)
        \/ CompleteVerify(t)
        \/ CompleteGetLock(t)
        \/ CompleteGetLockTimeout(t)
        \/ CompleteWriteMeta(t, "none")
        \/ CompleteCommit(t, "none")
    \/ \E p \in Procs :
        \/ BackgroundAppendMap(p)
        \/ BackgroundAppendLock(p)
        \/ BackgroundAppendScan(p)

SpecMpAppend == InitMpAppend /\ [][MpAppendNext]_vars

\* Process p is in backgroundAppend between file.Lock() and file.Unlock().
InScanAndAppend(p) == mpPc[p] = "ba_scan"

\* C27: no two executions of backgroundAppend for the same upload-id are
\* between file.Lock() and file.Unlock() at the same time, whatever
\* CompleteMultipartUpload and AbortMultipartUpload calls they overlap.
C27_OneWorkerPerUpload ==
    \A p, q \in Procs :
        (p # q /\ InScanAndAppend(p) /\ InScanAndAppend(q)) => mpUp[p] # mpUp[q]


\* The part numbers of the entries readDir returns.
NumbersOf(entries) == {x[1] : x \in entries}

\* The largest k such that parts 1..k are all among the entries.
LastContiguous(entries) ==
    CHOOSE k \in 0..MaxPartNumber :
        /\ \A i \in 1..k : i \in NumbersOf(entries)
        /\ (k + 1) \notin NumbersOf(entries)

\* C28: a run of backgroundAppend that holds the record's lock ends with its
\* next step, whatever parts are there; when it has read the directory, the
\* record holds parts 1..k and no more, each a part file of the directory,
\* where k is the largest number with parts 1..k all in the directory.
C28_AppendsContiguousPrefix ==
    /\ [](\A p \in Procs : InScanAndAppend(p) => ENABLED BackgroundAppendScan(p))
    /\ [][\A p \in Procs :
            (/\ InScanAndAppend(p)
             /\ mpPc'[p] # mpPc[p]
             /\ UploadExists(uploads, mpUp[p])
             /\ mpFile[p] \in LiveRecs(appendFileMap', mpFile')) =>
                LET k == LastContiguous(partFiles[mpUp[p]])
                    parts == recParts'[mpFile[p]]
                IN  /\ Len(parts) = k
                    /\ \A i \in 1..k : /\ parts[i][1] = i
                                       /\ parts[i] \in partFiles[mpUp[p]]]_vars

\* The goroutine has run on a directory that holds part 2 and not part 1:
\* the record is there and lists nothing.
C28_Witness ==
    \E u \in Uploads :
        /\ \A p \in Procs : mpPc[p] = "idle"
        /\ UploadExists(uploads, u)
        /\ NumbersOf(partFiles[u]) = {2}
        /\ appendFileMap[u] # NoRec
        /\ recParts[appendFileMap[u]] = <<>>


\* ---- the append file CompleteMultipartUpload ends up with ---------------

\* The record taken out of the map lists exactly the claimed parts.
RecordListsClaimed(t) ==
    /\ mpFile[t] # NoRec
    /\ Len(recParts[mpFile[t]]) = Len(mpParts[t])
    /\ \A i \in 1..Len(mpParts[t]) : recParts[mpFile[t]][i] = mpParts[t][i]

\* C29: CompleteMultipartUpload goes on with the background append file
\* only if the append record lists exactly the claimed parts; in every other
\* case it discards that file and appends the claimed parts one after the
\* other to a new temporary file (returning the error of an append that
\* fails).
C29_RenameOnlyIfRecordMatches ==
    [][\A t \in Threads :
          (mpPc[t] = "c_verify" /\ mpPc'[t] # "c_verify") =>
              /\ ~mpFallback'[t] => RecordListsClaimed(t)
              /\ ~RecordListsClaimed(t) =>
                    \/ /\ mpPc'[t] = "c_lock"
                       /\ mpFallback'[t]
                       /\ mpTmpData'[t] = PartsData(mpParts[t])
                       /\ mpFile[t] # NoRec
                       /\ recData'[mpFile[t]] = <<>>
                    \/ /\ mpPc'[t] = "idle"
                       /\ mpRet'.op = "complete"
                       /\ mpRet'.err = "ObjectNotFound"]_vars


\* ---- the done channel of the cleaner -----------------------------------

\* A signal was received on the done channel: the goroutine initFSObjects
\* started has returned.
Delivered == ~clRun \/ clStarts > 0

\* C30 as stated: the goroutine is in its select when it receives the
\* signal; once a signal was delivered, the cleaner looks at no upload-id
\* directory any more and no goroutine runs again.
C30_StoppedForGood ==
    [][/\ (clRun /\ ~clRun') => clPc = "sleep"
       /\ Delivered => /\ \A u \in Uploads : ~CleanerLooksAt(u)
                       /\ ~clRun']_vars

\* C30 as amended: the goroutine that receives the signal is in its select,
\* returns there and changes no directory; as long as no new goroutine is
\* started its ticker does not fire, no listing is left and no upload-id
\* directory is looked at; a goroutine runs again only by a new start.
C30_StoppedUntilStarted ==
    /\ [](~clRun => (clPc = "sleep" /\ clTodo = {} /\ ~ENABLED CleanerWake))
    /\ [][/\ (clRun /\ ~clRun') => (clPc = "sleep" /\ UNCHANGED <<fsVars, clPc, clTodo>>)
          /\ ~clRun => /\ \A u \in Uploads : ~CleanerLooksAt(u)
                       /\ clPc' = "sleep"
          /\ (~clRun /\ clRun') => clStarts' = clStarts + 1]_vars

\* The goroutine started after the first signal has returned as well, and a
\* stale upload-id directory is still there.
C30_Witness ==
    /\ ~clRun
    /\ clStarts = 1
    /\ \E u \in Uploads : uploads[u] = "active" /\ dirOld[u]


\* ---- the marker of a listing ------------------------------------------

\* The parts of the upload directory, one per part number, ascending.
PartsOnDisk ==
    SortedParts(PartsMapFrom(lpEntries, lpModTime, 1,
                             [n \in 1..MaxListPart |-> NoETag]), 1)

AfterMarker(part) == part[1] > lpMarker

\* C31: a listing with marker m and maxParts k returns the first k parts,
\* ascending, whose part number is greater than m; IsTruncated is true
\* exactly when further parts remain, and NextPartNumberMarker is then the
\* number of the last part returned.
C31_ListsPartsAfterMarker ==
    lpResult.err = "nil" =>
        LET after == SelectSeq(PartsOnDisk, AfterMarker)
            k == IF lpMaxParts < Len(after) THEN lpMaxParts ELSE Len(after)
        IN  /\ lpResult.parts = SubSeq(after, 1, k)
            /\ lpResult.isTruncated = (k < Len(after))
            /\ lpResult.isTruncated =>
                   lpResult.nextPartNumberMarker = after[k][1]


\* ---- the lengths of the appends of a heal ------------------------------

\* The least whole number not below a / b.
Ceil(a, b) == CHOOSE q \in 0..a : q * b >= a /\ (q - 1) * b < a

\* The length the append of block number n (from 0) is to have for a file
\* of hfSize bytes.
AppendLen(n) ==
    IF n = Ceil(hfSize, BlockSize) - 1 /\ hfSize % BlockSize # 0
    THEN Ceil(hfSize % BlockSize, DataBlocks)
    ELSE Ceil(BlockSize, DataBlocks)

\* C32: a fully healed disk of a file of size s > 0 has received
\* ceil(s/b) appends, each of ceil(b/N) bytes except the last, which has
\* ceil((s mod b)/N) bytes when s mod b is not 0; together they are as
\* long as what was read from each valid disk; for s = 0 nothing is read
\* and nothing is appended.
C32_AppendLengths ==
    /\ [][\A i \in Disks :
             Len(hfDst'[i]) > Len(hfDst[i]) =>
                 /\ hfDst'[i] = Append(hfDst[i], Len(hfDst[i]))
                 /\ Len(hfData'[i]) - Len(hfData[i]) = AppendLen(Len(hfDst[i]))]_vars
    /\ [](hfRet = "nil" =>
             \A i \in Healed :
                 /\ Len(hfDst[i]) = Ceil(hfSize, BlockSize)
                 /\ \A j \in ValidDisks : Len(hfData[i]) = Len(Buffers(j)))
    /\ [](hfSize = 0 =>
             /\ \A j \in ValidDisks : Len(Buffers(j)) = 0
             /\ \A i \in Disks : hfDst[i] = <<>> /\ hfData[i] = <<>>)

\* A file of one full block and one byte is healed onto disk 1: two
\* appends, of ceil(4/2) = 2 bytes and of ceil(1/2) = 1 byte.
C32_Witness ==
    /\ hfRet = "nil"
    /\ hfSize = BlockSize + 1
    /\ 1 \in Healed
    /\ hfDst[1] = <<0, 1>>
    /\ Len(hfData[1]) = Ceil(BlockSize, DataBlocks) + 1


\* ---- sendServiceCmd ---------------------------------------------------

InitSendServiceCmd ==
    NsInit /\ MpInit /\ VlIdle /\ ClInit /\ BucketInit /\ LpIdle /\ HfIdle /\ AdInit
        /\ DsInit /\ ScInit /\ GcIdle /\ LcIdle /\ LlIdle

SpecSendServiceCmd == InitSendServiceCmd /\ [][SendServiceCmdNext]_vars

\* C33: the command is invoked on the local peer only after the invocation
\* on every remote peer has returned, with an error or without.
C33_LocalAfterRemotes ==
    scPeer[0] # "none" =>
        \A i \in RemotePeers : scPeer[i] = "returned" /\ scErrs[i] \in {"nil", "err"}

\* The stop is being invoked on the local peer after it failed on remote
\* peer 1 and succeeded on remote peer 2.
C33_Witness ==
    /\ scCmd = "stop"
    /\ scPeer[0] = "invoking"
    /\ scErrs[1] = "err"
    /\ scErrs[2] = "nil"


\* ---- getValidServerConfig ---------------------------------------------

InitServerConfig ==
    NsInit /\ MpInit /\ VlIdle /\ ClInit /\ BucketInit /\ LpIdle /\ HfIdle /\ AdInit
        /\ DsInit /\ ScIdle /\ GcInit /\ LcIdle /\ LlIdle

SpecServerConfig == InitServerConfig /\ [][GetValidServerConfig]_vars

\* The servers whose fetch did not fail and whose config has no difference
\* from c.
ServersWith(c) ==
    {i \in 1..Len(gcServerConfigs) : ~gcErrs[i] /\ ConfigDiff(gcServerConfigs[i], c) = ""}

Majority == Len(gcServerConfigs) \div 2 + 1

\* C34: the call returns config c exactly when c is the config of at least
\* len(serverConfigs)/2 + 1 servers whose fetch did not fail, and
\* errXLWriteQuorum when there is no such config; a server whose fetch
\* failed is never counted.
C34_ConfigOfMajority ==
    gcRet.err # "none" =>
        /\ gcRet.err \in {"nil", "errXLWriteQuorum"}
        /\ gcRet.err = "nil" => Cardinality(ServersWith(gcRet.scv)) >= Majority
        /\ \A c \in ServerConfigs :
               Cardinality(ServersWith(c)) >= Majority =>
                   gcRet.err = "nil" /\ ConfigDiff(gcRet.scv, c) = ""

\* Of three servers the first has its own config, the second failed with
\* the config of the third in its slot, and the third answered: no config
\* has two servers, although two slots hold the same config.
C34_Witness ==
    /\ Len(gcServerConfigs) = 3
    /\ gcErrs = <<FALSE, TRUE, FALSE>>
    /\ gcServerConfigs[2] = gcServerConfigs[3]
    /\ gcServerConfigs[1] # gcServerConfigs[3]
    /\ gcRet.err = "errXLWriteQuorum"

\* Two of three servers answered with the same config, the first with
\* another one: the config of the two is returned.
C34_WitnessReturned ==
    /\ Len(gcServerConfigs) = 3
    /\ gcErrs = <<FALSE, FALSE, FALSE>>
    /\ gcServerConfigs[2] = gcServerConfigs[3]
    /\ gcServerConfigs[1] # gcServerConfigs[3]
    /\ gcRet = [scv |-> gcServerConfigs[3], err |-> "nil"]


\* ---- peerRPCReceiver.LoadCredentials ----------------------------------

SpecLoadCredentials == Init /\ [][LoadCredentialsNext]_vars

\* Another caller holds the transaction lock for writing.
WriteLocked ==
    \E c \in Callers \ {LcHandler} :
        Holds(c) /\ nsParam[c] = TransactionParam /\ ~nsRead[c]

\* C35: the handler reloads the config under the transaction lock: the
\* reload never runs while another operation holds the write lock, and
\* when the read lock is not obtained in time the handler returns the
\* error and has not reloaded.
C35_ReloadUnderLock ==
    /\ lcPc = "load" => ~WriteLocked
    /\ lcRet = "OperationTimedOut" => lcPc = "done"


\* ---- an unlock after the entry was force-unlocked and made anew --------

\* The caller whose hold is force-unlocked.
Owner == 1

\* The Owner takes the lock on the pair; while it holds it another caller
\* force-unlocks the pair; from then on the other callers take and release
\* the lock, and the Owner releases its hold when it is done.
NsRecreateNext ==
    \/ \E rl \in BOOLEAN, p \in ForceParams :
          forceCalls = 0 /\ LockEnter(Owner, p, rl)
    \/ \E c \in Callers \ {Owner}, rl \in BOOLEAN, p \in ForceParams :
          forceCalls > 0 /\ LockEnter(c, p, rl)
    \/ \E c \in Callers \ {Owner}, p \in ForceParams :
          nsPc[Owner] = "running" /\ ForceUnlockEnter(c, p)
    \/ \E c \in Callers :
          \/ LockLookup(c)
          \/ LockRef(c)
          \/ LockAcquire(c)
          \/ LockTimeout(c)
          \/ TimeoutEnter(c)
          \/ TimeoutCleanup(c)
          \/ UnlockEnter(c)
          \/ UnlockBody(c)
          \/ ForceUnlockBody(c)

SpecNsRecreate == Init /\ [][NsRecreateNext]_vars

\* The Owner's Unlock / RUnlock runs after its entry was force-unlocked:
\* what is in the map now, if anything, was made by another caller.
StaleUnlock ==
    /\ forceCalls > 0
    /\ nsPc[Owner] = "ul_body"
    /\ nsPc'[Owner] # "ul_body"

\* C36: an Unlock / RUnlock through a lock instance releases only a hold
\* this instance acquired: when its entry was force-unlocked and made anew
\* by another caller in between, it releases no RW primitive of the other
\* caller and neither decrements nor removes the other caller's entry.
C36_UnlockReleasesOwnHold ==
    [][StaleUnlock => UNCHANGED <<lockMap, nsRef, rwState, panicked>>]_vars


\* ---- the record of an upload-id that is gone ---------------------------

\* No request and no backgroundAppend goroutine is at work on u.
Quiet(u) == \A p \in Procs : mpPc[p] = "idle" \/ mpUp[p] # u

\* C37: once an upload-id was aborted, completed or removed by the cleaner
\* and every backgroundAppend goroutine started for it has finished,
\* appendFileMap has no entry for the upload-id.
C37_NoRecordLeftBehind ==
    \A u \in Uploads :
        (uploads[u] = "removed" /\ Quiet(u)) => appendFileMap[u] = NoRec


\* ---- the record the fallback of a complete reads ------------------------

\* CompleteMultipartUpload of t leaves the verification on the fallback
\* path, where fsRemoveFile(file.filePath) reads the record.
TakesFallback(t) ==
    /\ mpPc[t] = "c_verify"
    /\ mpPc'[t] # "c_verify"
    /\ mpFallback'[t]

\* C38: CompleteMultipartUpload never uses a missing append record: the
\* fallback path reads the file path of the record only when a record was
\* found in the map, whatever an AbortMultipartUpload or another
\* CompleteMultipartUpload of the same upload-id does meanwhile.
C38_FallbackReadsFoundRecord ==
    [][\A t \in Threads : TakesFallback(t) => mpFile[t] # NoRec]_vars


\* ---- a CompleteMultipartUpload that fails at the rename ----------------

\* CompleteMultipartUpload of t returns an error from the rename of the
\* data file, over an object that exists.
RenameFailsOverObject(t) ==
    /\ mpPc[t] = "c_rename"
    /\ mpPc'[t] = "idle"
    /\ mpRet'.err \notin {"nil", "StatError"}
    /\ objData # <<>>

\* C39: when CompleteMultipartUpload fails at the final rename of the data
\* file, an object that already existed keeps its previous data and its
\* previous fs.json: the metadata and etag next to the data are those of
\* the upload the data came from.
C39_FailedRenameKeepsObject ==
    [][\A t \in Threads :
          RenameFailsOverObject(t) => /\ objData' = objData
                                      /\ ObjectOfOneUpload']_vars


\* ---- xlObjects.ListLocks and ClearLocks --------------------------------

SpecListLocks == Init /\ [][ListLocksNext]_vars

\* C40: ListLocks returns at most one VolumeLockInfo for each locked
\* (bucket, object) of the bucket and prefix, however many operations hold
\* or wait for the object, and ClearLocks then force-unlocks each object
\* listed.
C40_OneInfoPerObject ==
    /\ \A i, j \in 1..Len(llLocks) :
          (llLocks[i].bucket = llLocks[j].bucket /\ llLocks[i].object = llLocks[j].object)
              => i = j
    /\ llPc = "done" => llNext = Len(llLocks) + 1

=============================================================================
